---- MODULE Spec2Model ----
(***************************************************************************)
(* Model of the diversity-constrained image selector of curate_media.py:   *)
(* get_image_hash, calculate_diversity_score and select_best_images.       *)
(*                                                                         *)
(* One call of select_best_images is a state machine: the hashing and the  *)
(* hero step, one step per greedy round, one step per fallback scan, and   *)
(* the return.  A candidate is the tuple <<path, hash, size>> the code     *)
(* builds at line 67.  A hash value is the name of a fingerprint; the bits *)
(* of the fingerprint are given by Fingerprint, and the distance of two    *)
(* hashes is the number of bit positions where their fingerprints differ.  *)
(*                                                                         *)
(* Three more specifications follow the selector's: SpecCurate, two        *)
(* interleaved sessions of curate_event on two event directories;          *)
(* SpecSupabase, ingest_event_directory from the media payload on, with    *)
(* SupabaseClient.upload_media_paths; SpecText, generate_event_content     *)
(* from the model's response to the WavEvent.  Each specification keeps    *)
(* the variables of the others at rest.  SpecTerminates is the selector    *)
(* under weak fairness, for any integer target_count and threshold, and    *)
(* SpecRerun is SpecCurate with a second call on the same directory.       *)
(***************************************************************************)
EXTENDS Integers, Sequences, FiniteSets, TLC

\* ---------------------------------------------------------------- bounds

\* Longest pool enumerated exhaustively.
MaxPool == 3
\* File sizes are drawn from 1..MaxWeight.
MaxWeight == 2
\* target_count is drawn from 1..MaxK (and the default, in the scenarios).
MaxK == 3

\* ------------------------------------------------------ program constants

\* phash(img, hash_size=16): a 16 x 16 bit fingerprint.
HashSize == 16
HashBits == HashSize * HashSize
\* target_count: int = 6
DefaultTargetCount == 6
\* similarity_threshold: int = 15
DefaultThreshold == 15
\* threshold = similarity_threshold - 2 ... threshold -= 2
DecayStep == 2
\* while threshold > 5
DecayFloor == 5

\* ------------------------------------------------------------ fingerprints

\* get_image_hash returns None when the image cannot be opened or hashed.
None == 0

\* The fingerprints of the model, as sets of the bit positions that are set.
\* 1..3 are used by the exhaustively enumerated pools: their pairwise
\* distances are 8, 12 and 20 (and 0 between two files with the same
\* fingerprint).  4..7 and 8..11 are two clusters: distance 2 inside a
\* cluster, distance 40 across.  12 is at distance 6 from 1 and 2 from 2:
\* between the decay floor and the last threshold of the fallback.
Fingerprint(h) ==
    CASE h = 1 -> {}
      [] h = 2 -> 1..8
      [] h = 3 -> 1..20
      [] h \in 4..7 -> {100 + h}
      [] h \in 8..11 -> (201..238) \cup {150 + h}
      [] h = 12 -> 1..6

GeneralHashes == 1..3
NearFloorHashes == {1, 2, 12}
Hashes == 1..12

\* Mutant of DistanceOf: only the bits of a that b lacks are counted.
DistanceOneSided(a, b) == Cardinality(Fingerprint(a) \ Fingerprint(b))

\* ImageHash.__sub__ (hash_val - h): the number of differing bits.
DistanceOf(a, b) ==
    Cardinality((Fingerprint(a) \ Fingerprint(b)) \cup (Fingerprint(b) \ Fingerprint(a)))

DistanceTable == [a \in Hashes |-> [b \in Hashes |-> DistanceOf(a, b)]]

Distance(a, b) == DistanceTable[a][b]

\* `if hash_val:` at line 65.  An ImageHash is truthy (its length is the
\* number of bits, never 0); None is falsy.
Truthy(h) == h # None

\* -------------------------------------------------------------- sequences

RECURSIVE SeqMin(_)
SeqMin(s) ==
    IF Len(s) = 1 THEN s[1]
    ELSE LET m == SeqMin(Tail(s)) IN IF s[1] <= m THEN s[1] ELSE m

RECURSIVE SeqSum(_)
SeqSum(s) == IF s = <<>> THEN 0 ELSE s[1] + SeqSum(Tail(s))

\* Mutant of Remove: the chosen candidate is never removed.
RemoveNothing(s, x) == s

\* list.remove(x): the list without its first element equal to x.
RECURSIVE Remove(_, _)
Remove(s, x) ==
    IF s = <<>> THEN <<>>
    ELSE IF s[1] = x THEN Tail(s)
    ELSE <<s[1]>> \o Remove(Tail(s), x)

\* Mutant of InsertBySize: x goes before the elements of its own size.
RECURSIVE InsertBeforeEqualSize(_, _)
InsertBeforeEqualSize(s, x) ==
    IF s = <<>> THEN <<x>>
    ELSE IF s[1][3] > x[3] THEN <<s[1]>> \o InsertBeforeEqualSize(Tail(s), x)
    ELSE <<x>> \o s

\* One insertion of the stable descending sort: x goes after every element
\* whose size is at least its own.
RECURSIVE InsertBySize(_, _)
InsertBySize(s, x) ==
    IF s = <<>> THEN <<x>>
    ELSE IF s[1][3] >= x[3] THEN <<s[1]>> \o InsertBySize(Tail(s), x)
    ELSE <<x>> \o s

\* image_data.sort(key=lambda x: x[2], reverse=True): stable, so candidates
\* of equal size keep their order.
RECURSIVE SortBySizeDesc(_)
SortBySizeDesc(s) ==
    IF s = <<>> THEN <<>>
    ELSE InsertBySize(SortBySizeDesc(SubSeq(s, 1, Len(s) - 1)), s[Len(s)])

Paths(s) == [i \in DOMAIN s |-> s[i][1]]

\* ------------------------------------------------------------------ state

VARIABLES
    image_paths,          \* the caller's list (argument image_paths)
    file_hash,            \* path -> what get_image_hash returns for the file
    file_size,            \* path -> os.path.getsize of the file
    target_count,         \* argument target_count
    similarity_threshold, \* argument similarity_threshold
    pc,                   \* "start", "greedy", "fallback" or "done"
    image_data,           \* the hashed candidates, sorted by size
    selected,             \* the candidates selected so far
    selected_hashes,      \* their hashes
    candidates,           \* the candidates not selected yet
    threshold,            \* the acceptance threshold in effect
    result                \* the returned list, once pc = "done"

selectorVars == <<image_paths, file_hash, file_size, target_count, similarity_threshold,
          pc, image_data, selected, selected_hashes, candidates, threshold, result>>

inputs == <<image_paths, file_hash, file_size, target_count, similarity_threshold>>

\* The state of curate_event (src/curate_media.py:125-198), one session per
\* event directory.
VARIABLES
    images,               \* event -> file name -> the image file's content
    metadata,             \* event -> the content of metadata.json
    session,              \* event -> the locals of the curate_event call
    images0,              \* images when the sessions started
    metadata0             \* metadata when the sessions started

curateVars == <<images, metadata, session, images0, metadata0>>

\* The state of ingest_event_directory (src/pipeline/orchestrator.py:67-177)
\* from line 146 on, and of SupabaseClient (src/pipeline/supabase_client.py).
VARIABLES
    ingest,               \* the locals of the ingest_event_directory call
    upload,               \* the locals of the upload_media_paths call
    requests,             \* the storage requests the client has issued
    disk                  \* the local paths that are existing files

ingestVars == <<ingest, upload, requests, disk>>

\* The state of generate_event_content (src/pipeline/text_generator.py:430-452).
VARIABLES
    response,             \* the JSON object of the model's response
    text                  \* the locals of the generate_event_content call

textVars == <<response, text>>

\* What a step of select_best_images leaves alone.
elsewhere == <<curateVars, ingestVars, textVars>>

vars == <<selectorVars, elsewhere>>

\* ------------------------------------------------- the selector's helpers

\* get_image_hash(path): the file's hash, or None when it cannot be decoded.
get_image_hash(path) == file_hash[path]

\* min(hash_val - h for h in selected_hashes)
min_distance(hash_val, hashes) ==
    SeqMin([i \in DOMAIN hashes |-> Distance(hash_val, hashes[i])])

\* calculate_diversity_score: the mean distance, as the fraction <<sum, len>>;
\* 100.0 when there is no hash to compare with.
calculate_diversity_score(hashes, new_hash) ==
    IF hashes = <<>> THEN <<100, 1>>
    ELSE <<SeqSum([i \in DOMAIN hashes |-> Distance(new_hash, hashes[i])]), Len(hashes)>>

\* a > b for two fractions with positive denominators.
Greater(a, b) == a[1] * b[2] > b[1] * a[2]

\* Mutant of TooSimilar: the comparison is reversed.
TooSimilarReversed(md, floor) == md > floor

\* Mutant of TooSimilar: no candidate is skipped.
TooSimilarNever(md, floor) == FALSE

\* if min_distance < similarity_threshold: continue
TooSimilar(md, floor) == md < floor

\* Mutant of Better: a candidate as diverse as the best one replaces it.
BetterOrEqual(diversity, best_diversity) == ~Greater(best_diversity, diversity)

\* if diversity > best_diversity
Better(diversity, best_diversity) == Greater(diversity, best_diversity)

\* The for loop of a greedy round from candidate i on: the best candidate
\* found, or <<>> (None) when every candidate was skipped.
RECURSIVE GreedyScan(_, _, _, _, _, _)
GreedyScan(cands, hashes, floor, i, best_candidate, best_diversity) ==
    IF i > Len(cands) THEN best_candidate
    ELSE IF TooSimilar(min_distance(cands[i][2], hashes), floor)
         THEN GreedyScan(cands, hashes, floor, i + 1, best_candidate, best_diversity)
    ELSE LET diversity == calculate_diversity_score(hashes, cands[i][2]) IN
         IF Better(diversity, best_diversity)
         THEN GreedyScan(cands, hashes, floor, i + 1, cands[i], diversity)
         ELSE GreedyScan(cands, hashes, floor, i + 1, best_candidate, best_diversity)

\* best_candidate = None; best_diversity = -1; for candidate in candidates: ...
BestCandidate(cands, hashes, floor) == GreedyScan(cands, hashes, floor, 1, <<>>, <<-1, 1>>)

\* Mutant of Accepts: the comparison is reversed.
AcceptsReversed(md, t) == md <= t

\* Mutant of Accepts: every candidate is accepted.
AcceptsAlways(md, t) == TRUE

\* if min_distance >= threshold
Accepts(md, t) == md >= t

\* The for loop of the fallback from candidate i on: the first candidate
\* accepted at threshold t, or <<>> when the loop ends without a break.
RECURSIVE FallbackScan(_, _, _, _)
FallbackScan(cands, hashes, t, i) ==
    IF i > Len(cands) THEN <<>>
    ELSE IF Accepts(min_distance(cands[i][2], hashes), t) THEN cands[i]
    ELSE FallbackScan(cands, hashes, t, i + 1)

\* The loop that builds image_data: one tuple per path whose hash is truthy.
RECURSIVE HashAll(_)
HashAll(paths) ==
    IF paths = <<>> THEN <<>>
    ELSE LET hash_val == get_image_hash(paths[1]) IN
         (IF Truthy(hash_val) THEN <<<<paths[1], hash_val, file_size[paths[1]]>>>> ELSE <<>>)
             \o HashAll(Tail(paths))

\* Mutant of Prefix: image_paths[:target_count - 1].
PrefixOneShort(paths, n) == SubSeq(paths, 1, IF n - 1 < Len(paths) THEN n - 1 ELSE Len(paths))

\* image_paths[:target_count]
Prefix(paths, n) == SubSeq(paths, 1, IF n < Len(paths) THEN n ELSE Len(paths))

\* Mutant of GreedyContinues: one round too many.
GreedyOneMore == Len(selected) <= target_count /\ candidates # <<>>

\* while len(selected) < target_count and candidates
GreedyContinues == Len(selected) < target_count /\ candidates # <<>>

\* Mutant of FallbackContinues: the decay stops one step earlier.
FallbackStopsEarly ==
    threshold > DecayFloor + DecayStep /\ Len(selected) < target_count /\ candidates # <<>>

\* while threshold > 5 and len(selected) < target_count and candidates
FallbackContinues ==
    threshold > DecayFloor /\ Len(selected) < target_count /\ candidates # <<>>

\* ------------------------------------------------------------------- Init

Identity(n) == [i \in 1..n |-> i]

\* The size of a file that cannot be hashed is never read (line 66 is under
\* `if hash_val`): such a file is given the largest size.
Sizes(hashes) ==
    {s \in [DOMAIN hashes -> 1..MaxWeight] :
        \A i \in DOMAIN hashes : hashes[i] = None => s[i] = MaxWeight}

\* Every pool of at most MaxPool files with distinct paths, every file
\* undecodable or with one of the general fingerprints, under the default
\* similarity threshold.
InitGeneral ==
    \E n \in 0..MaxPool :
        /\ image_paths = Identity(n)
        /\ file_hash \in [1..n -> GeneralHashes \cup {None}]
        /\ file_size \in Sizes(file_hash)
        /\ target_count \in 1..MaxK
        /\ similarity_threshold = DefaultThreshold

\* Pools of four decodable files (the second and the third the larger ones),
\* under every similarity threshold from 0 to 22.
InitFloors ==
    /\ image_paths = Identity(4)
    /\ file_hash \in [1..4 -> GeneralHashes]
    /\ file_size = <<1, 2, 2, 1>>
    /\ target_count \in 1..MaxK
    /\ similarity_threshold \in 0..22

\* Pools of three decodable files whose distances are 2, 6 and 8, under
\* the default similarity threshold.
InitNearFloor ==
    /\ image_paths = Identity(3)
    /\ file_hash \in [1..3 -> NearFloorHashes]
    /\ file_size \in Sizes(file_hash)
    /\ target_count \in 1..MaxK
    /\ similarity_threshold = DefaultThreshold

\* Ten files with one fingerprint, the default configuration; the files
\* have all the same size, or one of them is larger than the others.
InitIdentical ==
    /\ image_paths = Identity(10)
    /\ file_hash = [i \in 1..10 |-> 2]
    /\ \E large \in 0..10, w \in 1..MaxWeight :
        file_size = [i \in 1..10 |-> IF i = large THEN MaxWeight ELSE w]
    /\ target_count = DefaultTargetCount
    /\ similarity_threshold = DefaultThreshold

\* Eight files in two clusters of four, in two arrangements of the pool.
InitClusters ==
    /\ image_paths = Identity(8)
    /\ file_hash \in {[i \in 1..8 |-> i + 3],
                      [i \in 1..8 |-> IF i % 2 = 1 THEN 4 + (i \div 2) ELSE 7 + (i \div 2)]}
    /\ file_size \in [1..8 -> 1..MaxWeight]
    /\ target_count = 4
    /\ similarity_threshold = DefaultThreshold

\* No curation session is running.
NoSessions ==
    /\ images = <<>>
    /\ metadata = <<>>
    /\ session = <<>>
    /\ images0 = <<>>
    /\ metadata0 = <<>>

\* No ingestion is running.
NoIngest ==
    /\ ingest = <<>>
    /\ upload = <<>>
    /\ requests = <<>>
    /\ disk = {}

\* No text is being generated.
NoText ==
    /\ response = <<>>
    /\ text = <<>>

Init ==
    /\ InitGeneral \/ InitFloors \/ InitIdentical \/ InitClusters \/ InitNearFloor
    /\ NoSessions
    /\ NoIngest
    /\ NoText
    /\ pc = "start"
    /\ image_data = <<>>
    /\ selected = <<>>
    /\ selected_hashes = <<>>
    /\ candidates = <<>>
    /\ threshold = similarity_threshold
    /\ result = <<>>

\* ---------------------------------------------------------------- actions

\* Mutant of EarlyReturn: the largest file of a small pool is moved to the front.
EarlyReturnHeroFirst ==
    /\ pc = "start"
    /\ Len(image_paths) <= target_count
    /\ LET all == [i \in DOMAIN image_paths |->
                     <<image_paths[i], get_image_hash(image_paths[i]), file_size[image_paths[i]]>>]
       IN result' = Paths(SortBySizeDesc(all))
    /\ pc' = "done"
    /\ UNCHANGED <<elsewhere, inputs, image_data, selected, selected_hashes, candidates, threshold>>

\* Lines 58-59: a pool of at most target_count paths is returned as it is.
EarlyReturn ==
    /\ pc = "start"
    /\ Len(image_paths) <= target_count
    /\ result' = Prefix(image_paths, target_count)
    /\ pc' = "done"
    /\ UNCHANGED <<elsewhere, inputs, image_data, selected, selected_hashes, candidates, threshold>>

\* Mutant of ReturnEmpty: the unhashed pool is returned as a small pool is.
ReturnUnfiltered ==
    /\ pc = "start"
    /\ Len(image_paths) > target_count
    /\ HashAll(image_paths) = <<>>
    /\ result' = Prefix(image_paths, target_count)
    /\ pc' = "done"
    /\ UNCHANGED <<elsewhere, inputs, image_data, selected, selected_hashes, candidates, threshold>>

\* Lines 61-70: no path could be hashed.
ReturnEmpty ==
    /\ pc = "start"
    /\ Len(image_paths) > target_count
    /\ HashAll(image_paths) = <<>>
    /\ result' = <<>>
    /\ pc' = "done"
    /\ UNCHANGED <<elsewhere, inputs, image_data, selected, selected_hashes, candidates, threshold>>

\* Mutant of SelectHero: the hero stays among the candidates.
SelectHeroKeepsCandidate ==
    /\ pc = "start"
    /\ Len(image_paths) > target_count
    /\ HashAll(image_paths) # <<>>
    /\ image_data' = SortBySizeDesc(HashAll(image_paths))
    /\ selected' = <<image_data'[1]>>
    /\ selected_hashes' = <<image_data'[1][2]>>
    /\ candidates' = image_data'
    /\ pc' = "greedy"
    /\ UNCHANGED <<elsewhere, inputs, threshold, result>>

\* Lines 61-80: hash, sort by size, select the hero.
SelectHero ==
    /\ pc = "start"
    /\ Len(image_paths) > target_count
    /\ HashAll(image_paths) # <<>>
    /\ image_data' = SortBySizeDesc(HashAll(image_paths))
    /\ selected' = <<image_data'[1]>>
    /\ selected_hashes' = <<image_data'[1][2]>>
    /\ candidates' = Tail(image_data')
    /\ pc' = "greedy"
    /\ UNCHANGED <<elsewhere, inputs, threshold, result>>

\* Lines 82-104: a greedy round that finds a candidate.
GreedyRound ==
    /\ pc = "greedy"
    /\ GreedyContinues
    /\ LET best_candidate == BestCandidate(candidates, selected_hashes, similarity_threshold) IN
        /\ best_candidate # <<>>
        /\ selected' = Append(selected, best_candidate)
        /\ selected_hashes' = Append(selected_hashes, best_candidate[2])
        /\ candidates' = Remove(candidates, best_candidate)
    /\ UNCHANGED <<elsewhere, inputs, pc, image_data, threshold, result>>

\* Lines 82-108: a greedy round that finds none enters the fallback.
EnterFallback ==
    /\ pc = "greedy"
    /\ GreedyContinues
    /\ BestCandidate(candidates, selected_hashes, similarity_threshold) = <<>>
    /\ threshold' = similarity_threshold - DecayStep
    /\ pc' = "fallback"
    /\ UNCHANGED <<elsewhere, inputs, image_data, selected, selected_hashes, candidates, result>>

\* Mutant of FallbackAccept: the threshold is lowered after an acceptance too.
FallbackAcceptLowers ==
    /\ pc = "fallback"
    /\ FallbackContinues
    /\ LET candidate == FallbackScan(candidates, selected_hashes, threshold, 1) IN
        /\ candidate # <<>>
        /\ selected' = Append(selected, candidate)
        /\ selected_hashes' = Append(selected_hashes, candidate[2])
        /\ candidates' = Remove(candidates, candidate)
    /\ threshold' = threshold - DecayStep
    /\ UNCHANGED <<elsewhere, inputs, pc, image_data, result>>

\* Lines 109-117: a scan that accepts the first candidate far enough.
FallbackAccept ==
    /\ pc = "fallback"
    /\ FallbackContinues
    /\ LET candidate == FallbackScan(candidates, selected_hashes, threshold, 1) IN
        /\ candidate # <<>>
        /\ selected' = Append(selected, candidate)
        /\ selected_hashes' = Append(selected_hashes, candidate[2])
        /\ candidates' = Remove(candidates, candidate)
    /\ UNCHANGED <<elsewhere, inputs, pc, image_data, threshold, result>>

\* Lines 109-119: a scan that accepts none lowers the threshold.
FallbackDecay ==
    /\ pc = "fallback"
    /\ FallbackContinues
    /\ FallbackScan(candidates, selected_hashes, threshold, 1) = <<>>
    /\ threshold' = threshold - DecayStep
    /\ UNCHANGED <<elsewhere, inputs, pc, image_data, selected, selected_hashes, candidates, result>>

\* Mutant of Return: line 120's break is missing, the greedy loop goes on
\* after the fallback.
ReturnWithoutBreak ==
    \/ /\ pc = "greedy" /\ ~GreedyContinues
       /\ result' = Paths(selected)
       /\ pc' = "done"
       /\ UNCHANGED <<elsewhere, inputs, image_data, selected, selected_hashes, candidates, threshold>>
    \/ /\ pc = "fallback" /\ ~FallbackContinues
       /\ pc' = "greedy"
       /\ UNCHANGED <<elsewhere, inputs, image_data, selected, selected_hashes, candidates, threshold, result>>

\* Lines 82, 120, 122: the loop ends and the paths of selected are returned.
Return ==
    /\ \/ pc = "greedy" /\ ~GreedyContinues
       \/ pc = "fallback" /\ ~FallbackContinues
    /\ result' = Paths(selected)
    /\ pc' = "done"
    /\ UNCHANGED <<elsewhere, inputs, image_data, selected, selected_hashes, candidates, threshold>>

Next ==
    \/ EarlyReturn
    \/ ReturnEmpty
    \/ SelectHero
    \/ GreedyRound
    \/ EnterFallback
    \/ FallbackAccept
    \/ FallbackDecay
    \/ Return

Spec == Init /\ [][Next]_vars

\* ---------------------------------------------------- notions of the claims

Done == pc = "done"

\* The path can be fingerprinted.
Fingerprintable(path) == get_image_hash(path) # None

\* The fingerprintable paths of the pool.
Available == {i \in DOMAIN image_paths : Fingerprintable(image_paths[i])}

NoDuplicates(s) == \A i, j \in DOMAIN s : i # j => s[i] # s[j]

InSeq(x, s) == \E i \in DOMAIN s : s[i] = x

\* The decay fallback ran until the threshold was no longer above the floor.
DecayExhausted == pc \in {"fallback", "done"} /\ threshold <= DecayFloor

\* Every candidate left is closer than d to some selected candidate.
RemainingWithin(d) ==
    \A i \in DOMAIN candidates : min_distance(candidates[i][2], selected_hashes) < d

DefaultConfiguration == similarity_threshold = DefaultThreshold

\* ---------------------------------------------------------------------- C1

\* C1, as stated: with the default configuration, a pool with more than
\* target_count fingerprintable candidates yields exactly target_count
\* identifiers.
C1_ExactlyTargetCount ==
    (Done /\ DefaultConfiguration /\ Cardinality(Available) > target_count)
        => Len(result) = target_count

\* C1, amended: with the default configuration, a pool with more than
\* target_count fingerprintable candidates yields at least one and at most
\* target_count identifiers, and fewer than target_count only when the decay
\* ran out and every candidate left is at a distance below 7 (the last
\* threshold tried, one step above the decay floor) from a selected one.
C1_TargetCountUnlessTooSimilar ==
    (Done /\ DefaultConfiguration /\ Cardinality(Available) > target_count)
        => /\ Len(result) >= 1
           /\ Len(result) <= target_count
           /\ Len(result) < target_count
                => /\ DecayExhausted
                   /\ candidates # <<>>
                   /\ RemainingWithin(DecayFloor + DecayStep)

\* The target count is reached with the help of the fallback.
C1_Witness ==
    /\ Done /\ DefaultConfiguration
    /\ Cardinality(Available) > target_count
    /\ Len(result) = target_count
    /\ target_count >= 2
    /\ threshold < similarity_threshold

\* ---------------------------------------------------------------------- C2

\* Eight fingerprintable files in two clusters of four: every distance is 2
\* or 40, and every file has exactly three others at distance 2.
TwoClusters ==
    /\ Len(image_paths) = 8
    /\ \A i \in 1..8 : Fingerprintable(image_paths[i])
    /\ \A i, j \in 1..8 :
        i # j => Distance(file_hash[image_paths[i]], file_hash[image_paths[j]]) \in {2, 40}
    /\ \A i \in 1..8 :
        Cardinality({j \in 1..8 : j # i /\
            Distance(file_hash[image_paths[i]], file_hash[image_paths[j]]) = 2}) = 3

ScenarioB == target_count = 4 /\ DefaultConfiguration /\ TwoClusters

\* The returned list holds two files of different clusters.
BothClusters ==
    \E i, j \in DOMAIN result :
        Distance(file_hash[result[i]], file_hash[result[j]]) = 40

\* C2, as stated: in scenario B the selection has length 4 and holds a
\* candidate of each cluster, whatever the sizes.
C2_ClustersLengthFour ==
    (Done /\ ScenarioB) => (Len(result) = 4 /\ BothClusters)

\* C2, amended: in scenario B the selection has length 2, the hero and one
\* candidate of the other cluster, whatever the sizes: the six candidates
\* left are at distance 2 from a selected one, below every threshold tried.
C2_ClustersLengthTwo ==
    (Done /\ ScenarioB)
        => /\ Len(result) = 2
           /\ Distance(file_hash[result[1]], file_hash[result[2]]) = 40
           /\ DecayExhausted

\* Scenario B has run, with the two largest files in the same cluster.
C2_Witness ==
    /\ Done /\ ScenarioB
    /\ Len(result) = 2
    /\ \E i, j \in 1..8 :
        /\ i # j
        /\ Distance(file_hash[i], file_hash[j]) = 2
        /\ \A k \in 1..8 : k \notin {i, j} => file_size[k] < file_size[i] /\ file_size[k] < file_size[j]

\* ---------------------------------------------------------------------- C3

\* C3: a pool of at most target_count paths is returned whole, in its order
\* (also when some of its files cannot be hashed), and no step changes the
\* caller's list.
C3_SmallPoolReturnedWhole ==
    /\ []((Done /\ Len(image_paths) <= target_count)
            => (result = image_paths /\ Len(result) = Len(image_paths)))
    /\ [][image_paths' = image_paths]_vars

\* A pool of exactly target_count files, three of them, has been returned.
C3_Witness ==
    /\ Done
    /\ Len(image_paths) = target_count
    /\ Len(image_paths) = 3
    /\ result = image_paths

\* ---------------------------------------------------------------------- C4

\* The place of a path in the caller's list.
Position(path) == CHOOSE i \in DOMAIN image_paths : image_paths[i] = path

\* C4: for a pool of more than target_count paths and a non-empty selection,
\* the first identifier returned is fingerprintable, no fingerprintable
\* candidate is larger, and none of the same size comes before it in the pool.
C4_HeroIsLargest ==
    (Done /\ Len(image_paths) > target_count /\ result # <<>>)
        => /\ Fingerprintable(result[1])
           /\ \A i \in Available :
                /\ file_size[image_paths[i]] <= file_size[result[1]]
                /\ file_size[image_paths[i]] = file_size[result[1]]
                     => Position(result[1]) <= i

\* The hero is not the first path of the pool, and another file has its size.
C4_Witness ==
    /\ Done /\ Len(image_paths) > target_count /\ result # <<>>
    /\ Position(result[1]) > 1
    /\ Fingerprintable(image_paths[1])
    /\ \E i \in Available : i > Position(result[1]) /\ file_size[image_paths[i]] = file_size[result[1]]

\* ---------------------------------------------------------------------- C5

\* C5: the paths of the pool being distinct, no identifier is twice in the
\* selection at any step, nor in the returned list.
C5_NoIdentifierTwice ==
    NoDuplicates(image_paths) => (NoDuplicates(Paths(selected)) /\ NoDuplicates(result))

\* Three candidates are selected, the last one by the fallback.
C5_Witness ==
    /\ pc = "fallback"
    /\ Len(selected) >= 3
    /\ NoDuplicates(image_paths)

\* ---------------------------------------------------------------------- C6

\* C6, as stated: no identifier whose hashing fails is in the returned list,
\* whatever the size of the pool.
C6_NoUndecodableReturned ==
    Done => \A i \in DOMAIN result : Fingerprintable(result[i])

\* ---------------------------------------------------------------------- C7

\* C7, as stated: when at most target_count candidates are fingerprintable,
\* every one of them is returned.
C7_AllAvailableReturned ==
    (Done /\ Cardinality(Available) <= target_count)
        => \A i \in Available : InSeq(image_paths[i], result)

\* ---------------------------------------------------------------------- C9

\* Ten fingerprintable files at distance 0 from the first one (and so from
\* each other), target_count 6 and the default threshold.
ScenarioA ==
    /\ Len(image_paths) = 10
    /\ target_count = DefaultTargetCount
    /\ DefaultConfiguration
    /\ \A i \in 1..10 :
        /\ Fingerprintable(image_paths[i])
        /\ Distance(file_hash[image_paths[i]], file_hash[image_paths[1]]) = 0

\* C9: in scenario A the greedy pass leaves the hero alone in the selection,
\* the fallback accepts nothing at any threshold, and the list returned has
\* one element, fewer than 6.
C9_IdenticalPoolKeepsHeroOnly ==
    ScenarioA
        => /\ Len(selected) <= 1
           /\ pc \in {"greedy", "fallback"} => Len(selected) = 1
           /\ Done => /\ Len(result) = 1
                      /\ Len(result) < DefaultTargetCount
                      /\ DecayExhausted

\* Scenario A has run through the whole decay.
C9_Witness ==
    /\ ScenarioA /\ Done
    /\ threshold = DecayFloor
    /\ Len(result) = 1
    /\ Len(candidates) = 9

\* --------------------------------------------------------------------- C10

\* No path of the pool can be fingerprinted, and the pool is longer than
\* target_count.
NothingFingerprintable == Len(image_paths) > target_count /\ Available = {}

\* C10: the empty pool, and a pool longer than target_count with no
\* fingerprintable file, have a step to take (the call does not fail) and
\* yield the empty list.
C10_EmptyPoolEmptyList ==
    (image_paths = <<>> \/ NothingFingerprintable)
        => /\ pc = "start" => ENABLED Next
           /\ pc \in {"start", "done"}
           /\ Done => result = <<>>

\* A pool of three undecodable files has been answered.
C10_Witness ==
    /\ Done
    /\ NothingFingerprintable
    /\ Len(image_paths) = 3
    /\ result = <<>>

\* --------------------------------------------------------------------- C11

Min(a, b) == IF a <= b THEN a ELSE b

\* C11: the call returns at most min(target_count, |pool|) identifiers, all
\* of them paths of the pool; when the fallback has run out with fewer than
\* target_count selected, the return is the step to take, and the short list
\* is what is returned.
C11_ShortResultIsNormal ==
    /\ (pc = "fallback" /\ ~FallbackContinues) => ENABLED Return
    /\ Done => /\ Len(result) <= Min(target_count, Len(image_paths))
               /\ \A i \in DOMAIN result : InSeq(result[i], image_paths)
               /\ (Len(image_paths) > target_count /\ Available # {}) => result = Paths(selected)

\* The fallback ran out and fewer than target_count identifiers were returned.
C11_Witness ==
    /\ Done
    /\ DecayExhausted
    /\ candidates # <<>>
    /\ Len(result) < target_count
    /\ Len(result) >= 2

\* --------------------------------------------------------------------- C12

\* The largest size among the files of the pool.
Heaviest(path) == \A i \in DOMAIN image_paths : file_size[image_paths[i]] <= file_size[path]

\* C12, as stated: the first identifier returned for a pool of 1 to
\* target_count paths is a file of the largest size in the pool.
C12_SmallPoolHeroFirst ==
    (Done /\ Len(image_paths) >= 1 /\ Len(image_paths) <= target_count)
        => (result # <<>> /\ Heaviest(result[1]))

\* C12, amended: the first identifier returned for a pool of 1 to
\* target_count paths is the first path of the pool, whatever its size.
C12_SmallPoolFirstIsFirst ==
    (Done /\ Len(image_paths) >= 1 /\ Len(image_paths) <= target_count)
        => /\ result # <<>>
           /\ result[1] = image_paths[1]

\* A small pool whose first file is not the largest has been returned.
C12_Witness ==
    /\ Done
    /\ Len(image_paths) >= 2 /\ Len(image_paths) <= target_count
    /\ result # <<>>
    /\ ~Heaviest(result[1])
    /\ \A i \in DOMAIN image_paths : Fingerprintable(image_paths[i])

\* --------------------------------------------------------------------- C13

\* The hashes of the fingerprintable files of the pool.
PoolHashes == {file_hash[image_paths[i]] : i \in Available}

\* C13: between the hashes the selector compares, the distance is symmetric,
\* zero between a hash and itself, and an integer from 0 to the bit width.
C13_DistanceSymmetricBounded ==
    \A a, b \in PoolHashes :
        /\ Distance(a, b) = Distance(b, a)
        /\ Distance(a, a) = 0
        /\ Distance(a, b) \in 0..HashBits

\* The selector has compared hashes at distances 8, 12 and 20.
C13_Witness ==
    /\ pc = "fallback"
    /\ \E a, b, c \in PoolHashes :
        Distance(a, b) = 8 /\ Distance(b, c) = 12 /\ Distance(a, c) = 20

\* =================================================================
\* curate_event (src/curate_media.py:125-198)
\* =================================================================

\* ------------------------------------------- the selector as a function

\* The loop that builds image_data (lines 62-67), the hashes and the sizes
\* read from the files.
RECURSIVE HashFiles(_, _, _)
HashFiles(paths, hashf, sizef) ==
    IF paths = <<>> THEN <<>>
    ELSE LET hash_val == hashf[paths[1]] IN
         (IF Truthy(hash_val) THEN <<<<paths[1], hash_val, sizef[paths[1]]>>>> ELSE <<>>)
             \o HashFiles(Tail(paths), hashf, sizef)

\* Lines 105-120: the fallback loop, to its end.
RECURSIVE FallbackLoop(_, _, _, _, _)
FallbackLoop(sel, hashes, cands, t, K) ==
    IF ~(t > DecayFloor /\ Len(sel) < K /\ cands # <<>>) THEN sel
    ELSE LET candidate == FallbackScan(cands, hashes, t, 1) IN
         IF candidate # <<>>
         THEN FallbackLoop(Append(sel, candidate), Append(hashes, candidate[2]),
                           Remove(cands, candidate), t, K)
         ELSE FallbackLoop(sel, hashes, cands, t - DecayStep, K)

\* Lines 82-120: the greedy loop, which ends in the fallback loop when a
\* round finds no candidate.
RECURSIVE GreedyLoop(_, _, _, _, _)
GreedyLoop(sel, hashes, cands, K, T) ==
    IF ~(Len(sel) < K /\ cands # <<>>) THEN sel
    ELSE LET best_candidate == BestCandidate(cands, hashes, T) IN
         IF best_candidate # <<>>
         THEN GreedyLoop(Append(sel, best_candidate), Append(hashes, best_candidate[2]),
                         Remove(cands, best_candidate), K, T)
         ELSE FallbackLoop(sel, hashes, cands, T - DecayStep, K)

\* select_best_images (lines 45-122) from the call to the return.
select_best_images(paths, hashf, sizef, K, T) ==
    IF Len(paths) <= K THEN Prefix(paths, K)
    ELSE LET data == HashFiles(paths, hashf, sizef) IN
         IF data = <<>> THEN <<>>
         ELSE LET sorted == SortBySizeDesc(data) IN
              Paths(GreedyLoop(<<sorted[1]>>, <<sorted[1][2]>>, Tail(sorted), K, T))

\* The steps of the selector return what the function returns.
StepsAgreeWithFunction ==
    Done => result = select_best_images(image_paths, file_hash, file_size,
                                        target_count, similarity_threshold)

\* --------------------------------------------------- files and directories

\* The event directories of the two sessions.
Events == {"A", "B"}

\* A file name is <<prefix, n, extension>>: prefix 0 is final_, 1 is
\* extracted_frame_, 2 is selected_; extension 1 is .jpeg, 2 is .jpg; n is the
\* number in the name.  Tuples in this order compare as the names do.
final(i) == <<0, i, 2>>
extracted_frame_jpeg(n) == <<1, n, 1>>
extracted_frame_jpg(n) == <<1, n, 2>>
selected_jpeg(n) == <<2, n, 1>>
selected_jpg(n) == <<2, n, 2>>

FinalNames == {final(i) : i \in 0..(DefaultTargetCount - 1)}

CandidateNames == {<<prefix, n, ext>> : prefix \in 1..2, n \in 1..4, ext \in 1..2}

Names == FinalNames \cup CandidateNames

\* The content of an image file is <<hash, size, locked>>: what get_image_hash
\* returns for it, its size, and whether the file is locked: a locked file can
\* be neither read (its hash is None, copying it raises) nor deleted.
Image(hash, size) == <<hash, size, FALSE>>
Corrupt(size) == <<None, size, FALSE>>
Locked(size) == <<None, size, TRUE>>
Absent == <<None, 0, FALSE>>

\* The directory that holds the listed <<name, content>> entries.
Directory(entries) ==
    [name \in Names |->
        IF \E en \in entries : en[1] = name
        THEN (CHOOSE en \in entries : en[1] = name)[2]
        ELSE Absent]

Exists(dir, name) == dir[name] # Absent

\* sorted(...) of Path objects: by name.
NameBefore(a, b) ==
    \/ a[1] < b[1]
    \/ a[1] = b[1] /\ a[2] < b[2]
    \/ a[1] = b[1] /\ a[2] = b[2] /\ a[3] < b[3]

RECURSIVE SortedNames(_)
SortedNames(S) ==
    IF S = {} THEN <<>>
    ELSE LET first == CHOOSE a \in S : \A b \in S \ {a} : NameBefore(a, b)
         IN <<first>> \o SortedNames(S \ {first})

\* all_patterns (lines 133-138), each <<prefix, extension>>.
all_patterns == <<<<2, 2>>, <<2, 1>>, <<1, 2>>, <<1, 1>>>>

\* event_dir.glob(pattern)
Glob(dir, pattern) ==
    {name \in Names : Exists(dir, name) /\ name[1] = pattern[1] /\ name[3] = pattern[2]}

\* Lines 140-144: image_files = sorted(set(...)) of the four globs.
ImageFiles(dir) ==
    SortedNames(UNION {Glob(dir, all_patterns[k]) : k \in DOMAIN all_patterns})

\* Mutant of Selection: target_count is one more than the default.
SelectionOneMore(dir) ==
    select_best_images(ImageFiles(dir),
                       [name \in Names |-> dir[name][1]],
                       [name \in Names |-> dir[name][2]],
                       DefaultTargetCount + 1, DefaultThreshold)

\* Line 152: the selection of the directory's candidates.
Selection(dir) ==
    select_best_images(ImageFiles(dir),
                       [name \in Names |-> dir[name][1]],
                       [name \in Names |-> dir[name][2]],
                       DefaultTargetCount, DefaultThreshold)

\* The content of metadata.json: no file, a file that is not JSON, or an
\* object, with or without a "media" key; indent is the indentation the file
\* is written with.
NoMetadata == [kind |-> "absent", has_media |-> FALSE, media |-> <<>>, indent |-> 0]
InvalidMetadata == [kind |-> "invalid", has_media |-> FALSE, media |-> <<>>, indent |-> 0]
PlainMetadata == [kind |-> "object", has_media |-> FALSE, media |-> <<>>, indent |-> 4]
MediaMetadata ==
    [kind |-> "object", has_media |-> TRUE, media |-> <<selected_jpg(1)>>, indent |-> 4]

\* Lines 177-195: what the metadata update leaves in metadata.json after a
\* selection of n files.
UpdatedMetadata(m, n) ==
    IF m.kind # "object" THEN m
    ELSE [kind |-> "object",
          has_media |-> m.has_media,
          media |-> IF m.has_media THEN [i \in 1..n |-> final(i - 1)] ELSE m.media,
          indent |-> 2]

\* ------------------------------------------------------ the directories

\* No candidate file; a final image of an earlier run.
DirNoCandidates == Directory({<<final(0), Image(2, 1)>>})

\* A pool of two, one of them corrupt, and a final image of an earlier run.
DirPair ==
    Directory({<<selected_jpg(1), Image(1, 1)>>,
               <<extracted_frame_jpeg(1), Corrupt(2)>>,
               <<final(0), Image(3, 1)>>})

\* A pool of two whose second file is locked.
DirLocked ==
    Directory({<<selected_jpg(1), Image(1, 1)>>,
               <<selected_jpg(2), Locked(1)>>})

\* A pool of six files.
DirSix ==
    Directory({<<selected_jpg(1), Image(1, 1)>>,
               <<selected_jpg(2), Image(2, 2)>>,
               <<selected_jpeg(1), Image(3, 1)>>,
               <<extracted_frame_jpg(1), Image(3, 1)>>,
               <<extracted_frame_jpg(2), Image(2, 1)>>,
               <<extracted_frame_jpeg(2), Image(1, 1)>>})

\* A pool of eight files, one corrupt and one locked, of three fingerprints;
\* two final images of an earlier run, one of them locked.
DirEight ==
    Directory({<<selected_jpg(1), Image(1, 1)>>,
               <<selected_jpg(2), Image(1, 2)>>,
               <<selected_jpg(3), Image(2, 1)>>,
               <<selected_jpeg(1), Image(3, 1)>>,
               <<selected_jpeg(4), Locked(2)>>,
               <<extracted_frame_jpg(1), Image(3, 1)>>,
               <<extracted_frame_jpg(2), Corrupt(2)>>,
               <<extracted_frame_jpeg(1), Image(2, 1)>>,
               <<final(0), Image(2, 1)>>,
               <<final(4), Image(2, 1)>>})

\* A pool of seven files, none of which can be hashed.
DirUnhashable ==
    Directory({<<selected_jpg(n), Corrupt(1)>> : n \in 1..4}
              \cup {<<extracted_frame_jpg(n), Corrupt(1)>> : n \in 1..3})

\* A pool of two and a locked final image in the place of the second copy.
DirLockedFinal ==
    Directory({<<selected_jpg(1), Image(1, 1)>>,
               <<selected_jpg(2), Image(2, 1)>>,
               <<final(1), Locked(1)>>})

\* The event directories the sessions start from, each <<images, metadata>>.
EventDirs ==
    {<<DirNoCandidates, MediaMetadata>>,
     <<DirPair, MediaMetadata>>,
     <<DirPair, NoMetadata>>,
     <<DirLocked, PlainMetadata>>,
     <<DirSix, MediaMetadata>>,
     <<DirSix, InvalidMetadata>>,
     <<DirEight, MediaMetadata>>,
     <<DirEight, PlainMetadata>>,
     <<DirUnhashable, MediaMetadata>>,
     <<DirLockedFinal, NoMetadata>>}

\* ---------------------------------------------------------- the sessions

\* The locals of a call curate_event(event_dir, dry_run, clean) that has
\* not taken a step; ret is the returned pair, <<>> until the call returns;
\* unlink_failed tells that an unlink of the cleanup raised (line 173), and
\* previous holds <<dry_run, clean, unlink_failed>> of the call made before
\* this one on the same directory, <<>> when there was none.
Call(dry_run, clean) ==
    [pc |-> "start", dry_run |-> dry_run, clean |-> clean,
     image_files |-> <<>>, selected |-> <<>>, i |-> 0, k |-> 1, ret |-> <<>>,
     unlink_failed |-> FALSE, previous |-> <<>>]

\* The selector is not running on its own.
NoSelectorRun ==
    /\ image_paths = <<>>
    /\ file_hash = <<>>
    /\ file_size = <<>>
    /\ target_count = DefaultTargetCount
    /\ similarity_threshold = DefaultThreshold
    /\ pc = "idle"
    /\ image_data = <<>>
    /\ selected = <<>>
    /\ selected_hashes = <<>>
    /\ candidates = <<>>
    /\ threshold = DefaultThreshold
    /\ result = <<>>

InitCurate ==
    /\ \E dirs \in [Events -> EventDirs] :
        /\ images = [e \in Events |-> dirs[e][1]]
        /\ metadata = [e \in Events |-> dirs[e][2]]
    /\ session \in [Events -> {Call(dry_run, clean) : dry_run, clean \in BOOLEAN}]
    /\ images0 = images
    /\ metadata0 = metadata
    /\ NoSelectorRun
    /\ NoIngest
    /\ NoText

\* Mutant of final_path: the final images are written to the directory of
\* event "A", whatever the event.
final_path_shared(e, i) == <<"A", final(i)>>

\* Lines 160-161: event_dir / f"final_{i:02d}.jpg", as <<directory, name>>.
final_path(e, i) == <<e, final(i)>>

\* Mutant of StageAfterCopy: with clean, the cleanup comes before the
\* remaining copies.
StageCleanFirst(s, i) ==
    IF s.clean /\ s.k = 1 /\ s.selected # <<>> THEN "clean"
    ELSE IF i < Len(s.selected) THEN "copy"
    ELSE "metadata"

\* Where the call goes once i files are copied.
StageAfterCopy(s, i) ==
    IF i < Len(s.selected) THEN "copy"
    ELSE IF s.clean THEN "clean"
    ELSE "metadata"

\* Lines 132-147: no candidate file.
CurateNothing(e) ==
    /\ session[e].pc = "start"
    /\ ImageFiles(images[e]) = <<>>
    /\ session' = [session EXCEPT ![e].pc = "returned", ![e].ret = <<0, 0>>]
    /\ UNCHANGED <<selectorVars, ingestVars, textVars, images, metadata, images0, metadata0>>

\* Mutant of CurateDryRun: the dry run takes the path of a live run.
CurateDryRunLive(e) ==
    /\ session[e].pc = "start"
    /\ ImageFiles(images[e]) # <<>>
    /\ session[e].dry_run
    /\ LET image_files == ImageFiles(images[e])
           sel == Selection(images[e])
       IN session' = [session EXCEPT ![e].image_files = image_files,
                                     ![e].selected = sel,
                                     ![e].pc = StageAfterCopy([session[e] EXCEPT !.selected = sel], 0)]
    /\ UNCHANGED <<selectorVars, ingestVars, textVars, images, metadata, images0, metadata0>>

\* Lines 132-156: a dry run reports the counts and returns.
CurateDryRun(e) ==
    /\ session[e].pc = "start"
    /\ ImageFiles(images[e]) # <<>>
    /\ session[e].dry_run
    /\ LET image_files == ImageFiles(images[e])
           sel == Selection(images[e])
       IN session' = [session EXCEPT ![e].image_files = image_files,
                                     ![e].selected = sel,
                                     ![e].pc = "returned",
                                     ![e].ret = <<Len(image_files), Len(sel)>>]
    /\ UNCHANGED <<selectorVars, ingestVars, textVars, images, metadata, images0, metadata0>>

\* Lines 132-152: a live run lists the candidates and selects.
CurateSelect(e) ==
    /\ session[e].pc = "start"
    /\ ImageFiles(images[e]) # <<>>
    /\ ~session[e].dry_run
    /\ LET image_files == ImageFiles(images[e])
           sel == Selection(images[e])
       IN session' = [session EXCEPT ![e].image_files = image_files,
                                     ![e].selected = sel,
                                     ![e].pc = StageAfterCopy([session[e] EXCEPT !.selected = sel], 0)]
    /\ UNCHANGED <<selectorVars, ingestVars, textVars, images, metadata, images0, metadata0>>

\* Lines 159-165, one round of the loop: the final image is unlinked if it
\* exists, and the selected file copied in its place.
CopyFinal(e) ==
    LET s == session[e]
        src == s.selected[s.i + 1]
        dest == final_path(e, s.i)
    IN  /\ s.pc = "copy"
        /\ ~images[dest[1]][dest[2]][3]
        /\ Exists(images[e], src) /\ ~images[e][src][3]
        /\ images' = [images EXCEPT ![dest[1]][dest[2]] = images[e][src]]
        /\ session' = [session EXCEPT ![e].i = s.i + 1,
                                      ![e].pc = StageAfterCopy(s, s.i + 1)]
        /\ UNCHANGED <<selectorVars, ingestVars, textVars, metadata, images0, metadata0>>

\* Lines 163-165, a round that raises: the final image cannot be unlinked, or
\* it is unlinked and the selected file cannot be copied.
CopyRaises(e) ==
    LET s == session[e]
        src == s.selected[s.i + 1]
        dest == final_path(e, s.i)
    IN  /\ s.pc = "copy"
        /\ \/ /\ images[dest[1]][dest[2]][3]
              /\ UNCHANGED images
           \/ /\ ~images[dest[1]][dest[2]][3]
              /\ ~Exists(images[e], src) \/ images[e][src][3]
              /\ images' = [images EXCEPT ![dest[1]][dest[2]] = Absent]
        /\ session' = [session EXCEPT ![e].pc = "raised"]
        /\ UNCHANGED <<selectorVars, ingestVars, textVars, metadata, images0, metadata0>>

\* Mutant of CleanPattern: the cleanup uses the first pattern only.
CleanPatternFirstOnly(e) ==
    LET s == session[e]
        old_files == Glob(images[e], all_patterns[1])
    IN  /\ s.pc = "clean"
        /\ images' = [images EXCEPT ![e] =
                [name \in Names |->
                    IF name \in old_files /\ ~images[e][name][3] THEN Absent
                    ELSE images[e][name]]]
        /\ session' = [session EXCEPT ![e].k = s.k + 1,
                                      ![e].pc = IF s.k < Len(all_patterns) THEN "clean"
                                                ELSE "metadata",
                                      ![e].unlink_failed =
                                            s.unlink_failed \/ \E name \in old_files : images[e][name][3]]
        /\ UNCHANGED <<selectorVars, ingestVars, textVars, metadata, images0, metadata0>>

\* Lines 168-174, the inner loop for one pattern: every file the pattern
\* matches is unlinked, but for those whose unlink raises.
CleanPattern(e) ==
    LET s == session[e]
        old_files == Glob(images[e], all_patterns[s.k])
    IN  /\ s.pc = "clean"
        /\ images' = [images EXCEPT ![e] =
                [name \in Names |->
                    IF name \in old_files /\ ~images[e][name][3] THEN Absent
                    ELSE images[e][name]]]
        /\ session' = [session EXCEPT ![e].k = s.k + 1,
                                      ![e].pc = IF s.k < Len(all_patterns) THEN "clean"
                                                ELSE "metadata",
                                      ![e].unlink_failed =
                                            s.unlink_failed \/ \E name \in old_files : images[e][name][3]]
        /\ UNCHANGED <<selectorVars, ingestVars, textVars, metadata, images0, metadata0>>

\* Lines 177-198: metadata.json is updated and the counts are returned.
UpdateMetadata(e) ==
    LET s == session[e] IN
        /\ s.pc = "metadata"
        /\ metadata' = [metadata EXCEPT ![e] = UpdatedMetadata(metadata[e], Len(s.selected))]
        /\ session' = [session EXCEPT ![e].pc = "returned",
                                      ![e].ret = <<Len(s.image_files), Len(s.selected)>>]
        /\ UNCHANGED <<selectorVars, ingestVars, textVars, images, images0, metadata0>>

NextCurate ==
    \E e \in Events :
        \/ CurateNothing(e)
        \/ CurateDryRun(e)
        \/ CurateSelect(e)
        \/ CopyFinal(e)
        \/ CopyRaises(e)
        \/ CleanPattern(e)
        \/ UpdateMetadata(e)

SpecCurate == InitCurate /\ [][NextCurate]_vars

\* ------------------------------------------ notions of the curation claims

Returned(e) == session[e].pc = "returned"

Raised(e) == session[e].pc = "raised"

\* The candidate files of a directory.
CandidatesOf(dir) == {name \in CandidateNames : Exists(dir, name)}

\* Nothing of the event directory has changed since the sessions started.
Untouched(e) == images[e] = images0[e] /\ metadata[e] = metadata0[e]

\* --------------------------------------------------------------------- C14

\* C14: a call that returns reports <<original_count, final_count>>, the
\* number of candidate files the directory held and the length of the
\* selection, with 0 <= final_count <= min(6, original_count); a call on a
\* directory without candidate files changes no file and returns <<0, 0>>.
C14_CountsReported ==
    \A e \in Events :
        LET original_count == Cardinality(CandidatesOf(images0[e])) IN
            /\ Returned(e) =>
                /\ session[e].ret[1] = original_count
                /\ session[e].ret[2] = IF original_count = 0 THEN 0
                                       ELSE Len(Selection(images0[e]))
                /\ session[e].ret[2] >= 0
                /\ session[e].ret[2] <= Min(DefaultTargetCount, original_count)
            /\ original_count = 0 =>
                /\ Untouched(e)
                /\ session[e].pc \in {"start", "returned"}
                /\ Returned(e) => session[e].ret = <<0, 0>>

\* One call has returned 8 and a count from 1 to 5, the other has returned
\* <<0, 0>> from a directory that holds a final image and a metadata.json.
C14_Witness ==
    /\ Returned("A") /\ Returned("B")
    /\ session["A"].ret[1] = 8 /\ session["A"].ret[2] \in 1..5
    /\ session["B"].ret = <<0, 0>>
    /\ Exists(images["B"], final(0)) /\ metadata["B"].kind = "object"

\* --------------------------------------------------------------------- C15

\* C15: a dry run leaves the images and metadata.json of its directory as
\* they were, whatever clean is, and returns the pair that a live run which
\* started from the same directory returns.
C15_DryRunChangesNothing ==
    \A e \in Events :
        session[e].dry_run =>
            /\ Untouched(e)
            /\ session[e].pc \in {"start", "returned"}
            /\ \A f \in Events :
                (/\ ~session[f].dry_run
                 /\ images0[f] = images0[e]
                 /\ Returned(e) /\ Returned(f))
                    => session[f].ret = session[e].ret

\* A dry run with clean set and a live run have returned from the same
\* directory of eight candidates; the live run has changed its directory.
C15_Witness ==
    /\ session["A"].dry_run /\ session["A"].clean /\ ~session["B"].dry_run
    /\ Returned("A") /\ Returned("B")
    /\ images0["A"] = DirEight /\ images0["B"] = DirEight
    /\ images["B"] # images0["B"] /\ metadata["B"] # metadata0["B"]
    /\ session["A"].ret = <<8, 3>>

\* --------------------------------------------------------------------- C16

\* Lines 159-165 as a function: the directory after the copies from the i-th
\* on, and whether the loop came to its end.
RECURSIVE CopyAll(_, _, _)
CopyAll(dir, sel, i) ==
    IF i >= Len(sel) THEN <<dir, TRUE>>
    ELSE LET src == sel[i + 1]
             dest == final(i)
         IN  IF dir[dest][3] THEN <<dir, FALSE>>
             ELSE IF ~Exists(dir, src) \/ dir[src][3]
                  THEN <<[dir EXCEPT ![dest] = Absent], FALSE>>
             ELSE CopyAll([dir EXCEPT ![dest] = dir[src]], sel, i + 1)

\* Lines 168-174 as a function: the directory after the clean-up.
CleanAll(dir) ==
    [name \in Names |->
        IF name \in CandidateNames /\ ~dir[name][3] THEN Absent ELSE dir[name]]

\* curate_event run alone, from the call to its end: the directory and the
\* metadata it leaves, how it ends and the pair it returns.
RunAlone(dir, meta, dry_run, clean) ==
    LET image_files == ImageFiles(dir)
        sel == Selection(dir)
        copied == CopyAll(dir, sel, 0)
    IN  IF image_files = <<>>
        THEN [images |-> dir, metadata |-> meta, pc |-> "returned", ret |-> <<0, 0>>]
        ELSE IF dry_run
        THEN [images |-> dir, metadata |-> meta, pc |-> "returned",
              ret |-> <<Len(image_files), Len(sel)>>]
        ELSE IF ~copied[2]
        THEN [images |-> copied[1], metadata |-> meta, pc |-> "raised", ret |-> <<>>]
        ELSE [images |-> IF clean THEN CleanAll(copied[1]) ELSE copied[1],
              metadata |-> UpdatedMetadata(meta, Len(sel)),
              pc |-> "returned",
              ret |-> <<Len(image_files), Len(sel)>>]

\* The end of the session of event e is the end of its call run alone.
EndsAsAlone(e) ==
    LET alone == RunAlone(images0[e], metadata0[e], session[e].dry_run, session[e].clean)
    IN  /\ images[e] = alone.images
        /\ metadata[e] = alone.metadata
        /\ session[e].pc = alone.pc
        /\ session[e].ret = alone.ret

\* C16: a step changes the files of an event directory only if it is a step
\* of that directory's session, and however the steps of the two sessions
\* interleave, a session that has ended leaves its directory, and returns
\* the counts, as its call run alone does.
C16_SessionsIndependent ==
    /\ [](\A e \in Events : (Returned(e) \/ Raised(e)) => EndsAsAlone(e))
    /\ [][\A e \in Events :
            session'[e] = session[e] => images'[e] = images[e] /\ metadata'[e] = metadata[e]]_vars

\* Both sessions are under way, one copying and one cleaning, and both
\* directories have changed.
C16_Witness ==
    /\ session["A"].pc = "copy" /\ session["A"].i >= 1
    /\ session["B"].pc = "clean" /\ session["B"].k >= 2
    /\ images["A"] # images0["A"] /\ images["B"] # images0["B"]

\* =================================================================
\* ingest_event_directory (src/pipeline/orchestrator.py:146-177) and
\* SupabaseClient (src/pipeline/supabase_client.py:35-131)
\* =================================================================

\* The longest gallery.
MaxGallery == 2

\* A media entry is <<kind, prefix, slot, n>>: the empty string, the local
\* path of file n, or the public URL of the object prefix/slot (of gallery
\* index n).
NoPath == <<"", "", "", 0>>
LocalPath(n) == <<"path", "", "", n>>
Url(prefix, slot, n) == <<"url", prefix, slot, n>>

\* None as a media entry.
NoEntry == <<"None", "", "", 0>>

IsLocalPath(entry) == entry[1] = "path"
IsUrl(entry) == entry[1] = "url"

\* `media.get(key) and os.path.isfile(media[key])`, `item and os.path.isfile(item)`
Uploadable(entry) == IsLocalPath(entry) /\ entry[4] \in disk

\* _safe_str of a media entry: "" for None.
safe_str(value) == IF value = NoEntry THEN NoPath ELSE value

\* _safe_list of a list: the items that are not None.
safe_list(value) == SelectSeq(value, LAMBDA item : item # NoEntry)

\* build_supabase_event_payload: the id and the media of the payload (the
\* text fields, copied from the WavEvent, are left out).
build_supabase_event_payload(media, override_id) ==
    [id |-> IF override_id # None THEN override_id ELSE None,
     image |-> safe_str(media.cover),
     logo |-> safe_str(media.logo),
     gallery |-> safe_list(safe_list(media.gallery))]

\* The storage requests: the POST that creates the bucket, and the PUT of a
\* local file to a destination.
BucketPost == <<"POST", NoPath, NoPath>>
Put(local_path, dest) == <<"PUT", dest, local_path>>

\* The responses to the bucket POST, each <<status_code, text>>.
BucketResponses ==
    {<<200, "">>, <<201, "">>, <<409, "">>, <<403, "">>,
     <<400, "Duplicate">>, <<400, "Unauthorized">>, <<400, "">>, <<500, "">>}

\* resp.raise_for_status() raises.
RaisesForStatus(status_code) == status_code >= 400

\* Lines 46-57 of supabase_client.py: ensure_bucket returns.
EnsureBucketReturns(resp) ==
    \/ resp[1] \in {200, 409}
    \/ resp[1] = 400 /\ resp[2] \in {"Duplicate", "Unauthorized"}
    \/ resp[1] = 403
    \/ ~RaisesForStatus(resp[1])

\* The status codes of the responses to a PUT and to the POST of an event.
PutStatuses == {200, 500}

\* The responses to the POST of an event, each <<body, status_code>>, the
\* body JSON or not.
PostResponses == {<<"json", 201>>, <<"text", 201>>, <<"text", 500>>}

\* Lines 127-131 of supabase_client.py: what post_event returns.
PostEventReturn(resp) ==
    IF resp[1] = "json" THEN <<"resp.json()", resp[2]>>
    ELSE <<"status_code and text", resp[2]>>

NoResponse == <<"None", 0>>

\* The locals of upload_media_paths(media, prefix) on entry; raised_by is the
\* method that raised, once pc is "raised".
UploadCall(media, prefix) ==
    [pc |-> "ensure", raised_by |-> "", media |-> media, prefix |-> prefix, idx |-> 0,
     cover_url |-> NoPath, logo_url |-> NoPath, gallery_urls |-> <<>>,
     result |-> [cover |-> NoPath, logo |-> NoPath, gallery |-> <<>>]]

\* upload_media_paths has not been called.
UploadIdle ==
    [UploadCall([cover |-> NoPath, logo |-> NoPath, gallery |-> <<>>], "") EXCEPT !.pc = "idle"]

\* The galleries of at most MaxGallery entries taken from a set.
Galleries(entries) == UNION {[1..n -> entries] : n \in 0..MaxGallery}

\* ingest_event_directory at line 146: the cover and the gallery are the
\* locally generated paths, the logo is "" (line 105).
InitIngest ==
    /\ \E cover \in {NoPath, LocalPath(1)},
          gallery \in Galleries({LocalPath(3), LocalPath(4)}),
          upload_to_supabase \in BOOLEAN, has_client \in BOOLEAN,
          override_id \in {None, 1},
          supabase_prefix \in {"", "custom"} :
        ingest = [pc |-> "start",
                  upload_to_supabase |-> upload_to_supabase,
                  has_client |-> has_client,
                  override_id |-> override_id,
                  supabase_prefix |-> supabase_prefix,
                  local_media |-> [cover |-> cover, logo |-> NoPath, gallery |-> gallery],
                  media_payload |-> [cover |-> cover, logo |-> NoPath, gallery |-> gallery],
                  uploaded_media |-> [cover |-> NoPath, logo |-> NoPath, gallery |-> <<>>],
                  payload |-> build_supabase_event_payload(
                                  [cover |-> NoPath, logo |-> NoPath, gallery |-> <<>>], None),
                  supabase_resp |-> NoResponse,
                  calls |-> <<>>,
                  posted |-> <<>>,
                  post_returned |-> <<>>]
    /\ upload = UploadIdle
    /\ requests = <<>>
    /\ disk \in SUBSET {1, 3, 4}

\* upload_media_paths called on its own, with any media.
InitUpload ==
    /\ \E cover \in {NoPath, LocalPath(1)},
          logo \in {NoPath, LocalPath(2)},
          gallery \in Galleries({NoPath, LocalPath(3), LocalPath(4)}),
          prefix \in {"slug", "custom"} :
        upload = UploadCall([cover |-> cover, logo |-> logo, gallery |-> gallery], prefix)
    /\ ingest = [pc |-> "none",
                 upload_to_supabase |-> FALSE,
                 has_client |-> TRUE,
                 override_id |-> None,
                 supabase_prefix |-> "",
                 local_media |-> [cover |-> NoPath, logo |-> NoPath, gallery |-> <<>>],
                 media_payload |-> [cover |-> NoPath, logo |-> NoPath, gallery |-> <<>>],
                 uploaded_media |-> [cover |-> NoPath, logo |-> NoPath, gallery |-> <<>>],
                 payload |-> build_supabase_event_payload(
                                 [cover |-> NoPath, logo |-> NoPath, gallery |-> <<>>], None),
                 supabase_resp |-> NoResponse,
                 calls |-> <<>>,
                 posted |-> <<>>,
                 post_returned |-> <<>>]
    /\ requests = <<>>
    /\ disk \in SUBSET (1..4)

InitSupabase ==
    /\ InitIngest \/ InitUpload
    /\ NoSelectorRun
    /\ NoSessions
    /\ NoText

\* ------------------------------------------------- upload_media_paths

\* Lines 86-87 of supabase_client.py: ensure_bucket posts, and returns or
\* raises on the response.
EnsureBucket ==
    /\ upload.pc = "ensure"
    /\ requests' = Append(requests, BucketPost)
    /\ \E resp \in BucketResponses :
        upload' = IF EnsureBucketReturns(resp)
                  THEN [upload EXCEPT !.pc = "cover"]
                  ELSE [upload EXCEPT !.pc = "raised", !.raised_by = "ensure_bucket"]
    /\ UNCHANGED <<selectorVars, curateVars, textVars, ingest, disk>>

\* Lines 92-95: the cover, uploaded if it is the path of an existing file.
UploadCover ==
    /\ upload.pc = "cover"
    /\ \/ /\ ~Uploadable(upload.media.cover)
          /\ upload' = [upload EXCEPT !.pc = "logo"]
          /\ UNCHANGED requests
       \/ /\ Uploadable(upload.media.cover)
          /\ LET dest == Url(upload.prefix, "cover", 0) IN
              /\ requests' = Append(requests, Put(upload.media.cover, dest))
              /\ \E status_code \in PutStatuses :
                  upload' = IF RaisesForStatus(status_code)
                            THEN [upload EXCEPT !.pc = "raised", !.raised_by = "upload_file"]
                            ELSE [upload EXCEPT !.pc = "logo", !.cover_url = dest]
    /\ UNCHANGED <<selectorVars, curateVars, textVars, ingest, disk>>

\* Lines 97-100: the logo, uploaded if it is the path of an existing file.
UploadLogo ==
    /\ upload.pc = "logo"
    /\ \/ /\ ~Uploadable(upload.media.logo)
          /\ upload' = [upload EXCEPT !.pc = "gallery"]
          /\ UNCHANGED requests
       \/ /\ Uploadable(upload.media.logo)
          /\ LET dest == Url(upload.prefix, "logo", 0) IN
              /\ requests' = Append(requests, Put(upload.media.logo, dest))
              /\ \E status_code \in PutStatuses :
                  upload' = IF RaisesForStatus(status_code)
                            THEN [upload EXCEPT !.pc = "raised", !.raised_by = "upload_file"]
                            ELSE [upload EXCEPT !.pc = "gallery", !.logo_url = dest]
    /\ UNCHANGED <<selectorVars, curateVars, textVars, ingest, disk>>

\* Mutant of UploadGalleryItem: an item that is not uploadable is uploaded
\* all the same.
UploadGalleryItemUnchecked ==
    /\ upload.pc = "gallery"
    /\ upload.idx < Len(upload.media.gallery)
    /\ LET item == upload.media.gallery[upload.idx + 1]
           dest == Url(upload.prefix, "gallery", upload.idx)
       IN  /\ requests' = Append(requests, Put(item, dest))
           /\ upload' = [upload EXCEPT !.idx = upload.idx + 1,
                                       !.gallery_urls = Append(upload.gallery_urls, dest)]
    /\ UNCHANGED <<selectorVars, curateVars, textVars, ingest, disk>>

\* Lines 102-105, one round of the loop: the gallery item of index idx,
\* uploaded if it is the path of an existing file.
UploadGalleryItem ==
    /\ upload.pc = "gallery"
    /\ upload.idx < Len(upload.media.gallery)
    /\ LET item == upload.media.gallery[upload.idx + 1]
           dest == Url(upload.prefix, "gallery", upload.idx)
       IN  \/ /\ ~Uploadable(item)
              /\ upload' = [upload EXCEPT !.idx = upload.idx + 1]
              /\ UNCHANGED requests
           \/ /\ Uploadable(item)
              /\ requests' = Append(requests, Put(item, dest))
              /\ \E status_code \in PutStatuses :
                  upload' = IF RaisesForStatus(status_code)
                            THEN [upload EXCEPT !.pc = "raised", !.raised_by = "upload_file"]
                            ELSE [upload EXCEPT !.idx = upload.idx + 1,
                                                !.gallery_urls = Append(upload.gallery_urls, dest)]
    /\ UNCHANGED <<selectorVars, curateVars, textVars, ingest, disk>>

\* Line 107: the URLs are returned.
UploadReturn ==
    /\ upload.pc = "gallery"
    /\ upload.idx = Len(upload.media.gallery)
    /\ upload' = [upload EXCEPT !.pc = "returned",
                                !.result = [cover |-> upload.cover_url,
                                            logo |-> upload.logo_url,
                                            gallery |-> upload.gallery_urls]]
    /\ UNCHANGED <<selectorVars, curateVars, textVars, ingest, requests, disk>>

\* ---------------------------------------------- ingest_event_directory

\* Mutant of ShouldUpload: `or` in the place of `and`.
ShouldUploadEither == ingest.upload_to_supabase \/ ingest.has_client

\* Lines 154 and 162 of orchestrator.py:
\* upload_to_supabase and supabase_client is not None
ShouldUpload == ingest.upload_to_supabase /\ ingest.has_client

\* Lines 153-156: upload_media_paths is called.
CallUpload ==
    /\ ingest.pc = "start"
    /\ ShouldUpload
    /\ LET prefix == IF ingest.supabase_prefix # "" THEN ingest.supabase_prefix ELSE "slug"
       IN upload' = UploadCall(ingest.media_payload, prefix)
    /\ ingest' = [ingest EXCEPT !.pc = "uploading",
                                !.calls = Append(ingest.calls, "upload_media_paths")]
    /\ UNCHANGED <<selectorVars, curateVars, textVars, requests, disk>>

\* Mutant of UploadReturned: the local paths stay in media_payload.
UploadReturnedUnused ==
    /\ ingest.pc = "uploading"
    /\ upload.pc = "returned"
    /\ ingest' = [ingest EXCEPT !.pc = "build", !.uploaded_media = upload.result]
    /\ UNCHANGED <<selectorVars, curateVars, textVars, upload, requests, disk>>

\* Lines 156-157: upload_media_paths has returned.
UploadReturned ==
    /\ ingest.pc = "uploading"
    /\ upload.pc = "returned"
    /\ ingest' = [ingest EXCEPT !.pc = "build",
                                !.uploaded_media = upload.result,
                                !.media_payload = upload.result]
    /\ UNCHANGED <<selectorVars, curateVars, textVars, upload, requests, disk>>

\* Line 156: upload_media_paths has raised, and so does the call.
UploadRaised ==
    /\ ingest.pc = "uploading"
    /\ upload.pc = "raised"
    /\ ingest' = [ingest EXCEPT !.pc = "raised"]
    /\ UNCHANGED <<selectorVars, curateVars, textVars, upload, requests, disk>>

\* Lines 153-154: nothing is uploaded.
SkipUpload ==
    /\ ingest.pc = "start"
    /\ ~ShouldUpload
    /\ ingest' = [ingest EXCEPT !.pc = "build"]
    /\ UNCHANGED <<selectorVars, curateVars, textVars, upload, requests, disk>>

\* Lines 159-177: the payload is built; without a post the call returns.
BuildPayload ==
    /\ ingest.pc = "build"
    /\ ingest' = [ingest EXCEPT
            !.payload = build_supabase_event_payload(ingest.media_payload, ingest.override_id),
            !.calls = Append(ingest.calls, "build_supabase_event_payload"),
            !.pc = IF ShouldUpload THEN "post" ELSE "returned"]
    /\ UNCHANGED <<selectorVars, curateVars, textVars, upload, requests, disk>>

\* Lines 161-177: post_event is called with the payload; the call returns
\* with what post_event returns, or raises as post_event does.
PostEvent ==
    /\ ingest.pc = "post"
    /\ \E resp \in PostResponses :
        IF RaisesForStatus(resp[2])
        THEN ingest' = [ingest EXCEPT !.pc = "raised",
                                      !.calls = Append(ingest.calls, "post_event"),
                                      !.posted = Append(ingest.posted, ingest.payload)]
        ELSE ingest' = [ingest EXCEPT !.pc = "returned",
                                      !.calls = Append(ingest.calls, "post_event"),
                                      !.posted = Append(ingest.posted, ingest.payload),
                                      !.post_returned = Append(ingest.post_returned,
                                                               PostEventReturn(resp)),
                                      !.supabase_resp = PostEventReturn(resp)]
    /\ UNCHANGED <<selectorVars, curateVars, textVars, upload, requests, disk>>

NextSupabase ==
    \/ EnsureBucket
    \/ UploadCover
    \/ UploadLogo
    \/ UploadGalleryItem
    \/ UploadReturn
    \/ CallUpload
    \/ UploadReturned
    \/ UploadRaised
    \/ SkipUpload
    \/ BuildPayload
    \/ PostEvent

SpecSupabase == InitSupabase /\ [][NextSupabase]_vars

\* --------------------------------------------------------------------- C17

\* s is an initial part of t.
IsPrefix(s, t) == Len(s) <= Len(t) /\ s = SubSeq(t, 1, Len(s))

\* No entry of the media is a local path.
NoLocalPath(media) ==
    /\ ~IsLocalPath(media.cover)
    /\ ~IsLocalPath(media.logo)
    /\ \A i \in DOMAIN media.gallery : ~IsLocalPath(media.gallery[i])

\* C17: in a call with upload_to_supabase set and a client, the calls are
\* made in the order upload_media_paths, build_supabase_event_payload,
\* post_event, and post_event at most once; when the call returns, all three
\* are made, the one payload posted is the returned payload, the payload and
\* the returned media hold what upload_media_paths returned, and no local
\* path, and supabase_response is what post_event returned.
C17_UploadThenBuildThenPost ==
    (ingest.pc # "none" /\ ingest.upload_to_supabase /\ ingest.has_client) =>
        /\ IsPrefix(ingest.calls,
                    <<"upload_media_paths", "build_supabase_event_payload", "post_event">>)
        /\ Len(ingest.posted) <= 1
        /\ ingest.pc = "returned" =>
            /\ ingest.calls =
                   <<"upload_media_paths", "build_supabase_event_payload", "post_event">>
            /\ ingest.posted = <<ingest.payload>>
            /\ ingest.media_payload = upload.result
            /\ ingest.payload.image = upload.result.cover
            /\ ingest.payload.logo = upload.result.logo
            /\ ingest.payload.gallery = upload.result.gallery
            /\ NoLocalPath(ingest.media_payload)
            /\ ingest.post_returned = <<ingest.supabase_resp>>

\* A call that uploaded a cover and a gallery of two has returned.
C17_Witness ==
    /\ ingest.pc = "returned"
    /\ ingest.upload_to_supabase /\ ingest.has_client
    /\ IsLocalPath(ingest.local_media.cover)
    /\ IsUrl(ingest.payload.image)
    /\ Len(ingest.payload.gallery) = 2
    /\ IsUrl(ingest.payload.gallery[2])

\* --------------------------------------------------------------------- C18

\* C18: in a call without upload_to_supabase or without a client, neither
\* upload_media_paths nor post_event is called and no request is issued; when
\* the call returns, supabase_response is None, the id of the payload is
\* override_id, and the media, and those of the payload, are the local paths.
C18_NoUploadNoSideEffect ==
    (ingest.pc # "none" /\ ~(ingest.upload_to_supabase /\ ingest.has_client)) =>
        /\ \A i \in DOMAIN ingest.calls : ingest.calls[i] = "build_supabase_event_payload"
        /\ upload = UploadIdle
        /\ requests = <<>>
        /\ ingest.posted = <<>>
        /\ ingest.pc = "returned" =>
            /\ ingest.supabase_resp = NoResponse
            /\ ingest.payload.id = ingest.override_id
            /\ ingest.media_payload = ingest.local_media
            /\ ingest.payload.image = ingest.local_media.cover
            /\ ingest.payload.gallery = ingest.local_media.gallery

\* A call with upload_to_supabase set, without a client, and with an
\* override_id, has returned a cover and a gallery of two.
C18_Witness ==
    /\ ingest.pc = "returned"
    /\ ingest.upload_to_supabase /\ ~ingest.has_client
    /\ ingest.override_id # None
    /\ IsLocalPath(ingest.media_payload.cover)
    /\ Len(ingest.media_payload.gallery) = 2

\* --------------------------------------------------------------------- C19

\* The entries of the media in the order cover, logo, gallery items, each
\* with its destination.
Slots(media, prefix) ==
    <<<<media.cover, Url(prefix, "cover", 0)>>, <<media.logo, Url(prefix, "logo", 0)>>>>
        \o [i \in DOMAIN media.gallery |-> <<media.gallery[i], Url(prefix, "gallery", i - 1)>>]

\* The slots whose entry is the path of an existing file.
UploadableSlots(media, prefix) ==
    SelectSeq(Slots(media, prefix), LAMBDA slot : Uploadable(slot[1]))

\* One PUT for each of them.
ExpectedPuts(media, prefix) ==
    LET slots == UploadableSlots(media, prefix)
    IN [i \in DOMAIN slots |-> Put(slots[i][1], slots[i][2])]

\* The URL returned for an entry.
UrlFor(entry, dest) == IF Uploadable(entry) THEN dest ELSE NoPath

\* C19: upload_media_paths issues the bucket POST first; the PUTs that follow
\* are, in the order cover, logo, gallery items, one for each entry that is
\* the path of an existing file, and none for another entry; no PUT is
\* issued when ensure_bucket raises; when the call returns, every such PUT
\* has been issued, and the result holds the URL of each uploaded entry and
\* none for the others.
C19_BucketThenOnePutPerFile ==
    upload.pc # "idle" =>
        /\ upload.pc = "ensure" => requests = <<>>
        /\ upload.pc # "ensure" =>
            /\ requests # <<>>
            /\ requests[1] = BucketPost
            /\ IsPrefix(Tail(requests), ExpectedPuts(upload.media, upload.prefix))
        /\ upload.raised_by = "ensure_bucket" => requests = <<BucketPost>>
        /\ upload.pc = "returned" =>
            /\ Tail(requests) = ExpectedPuts(upload.media, upload.prefix)
            /\ upload.result.cover =
                   UrlFor(upload.media.cover, Url(upload.prefix, "cover", 0))
            /\ upload.result.logo =
                   UrlFor(upload.media.logo, Url(upload.prefix, "logo", 0))
            /\ LET slots == UploadableSlots(
                                [upload.media EXCEPT !.cover = NoPath, !.logo = NoPath],
                                upload.prefix)
               IN upload.result.gallery = [i \in DOMAIN slots |-> slots[i][2]]

\* A call has returned after the POST and two PUTs: the cover is uploaded,
\* the logo is a path missing on disk, and of the two gallery items the first
\* is empty and the second uploaded.
C19_Witness ==
    /\ upload.pc = "returned"
    /\ Uploadable(upload.media.cover)
    /\ IsLocalPath(upload.media.logo) /\ ~Uploadable(upload.media.logo)
    /\ Len(upload.media.gallery) = 2
    /\ upload.media.gallery[1] = NoPath
    /\ Uploadable(upload.media.gallery[2])
    /\ Len(requests) = 3
    /\ upload.result.gallery = <<Url(upload.prefix, "gallery", 1)>>

\* =================================================================
\* generate_event_content (src/pipeline/text_generator.py:121-452)
\* =================================================================

\* By how much a string or a list of a response exceeds its limit, at most.
MaxExcess == 2

\* The properties of _wav_event_schema (lines 125-171); a key that a property
\* does not have is None, as props.get(key) is.
String(maxLength) ==
    [type |-> "string", maxLength |-> maxLength,
     minItems |-> None, maxItems |-> None, itemMaxLength |-> None]

Array(itemMaxLength, minItems, maxItems) ==
    [type |-> "array", maxLength |-> None,
     minItems |-> minItems, maxItems |-> maxItems, itemMaxLength |-> itemMaxLength]

Boolean ==
    [type |-> "boolean", maxLength |-> None,
     minItems |-> None, maxItems |-> None, itemMaxLength |-> None]

StringFields ==
    {"brand", "title", "slug", "summary", "description", "instagram_closing",
     "alt_instagram", "linkedin_article", "alt_title_1", "alt_title_2",
     "instagram_hook", "instagram_body", "instagram_hashtags", "linkedin_post",
     "category"}

ListFields == {"highlights", "keywords", "hashtags"}

Fields == StringFields \cup ListFields \cup {"needs_review"}

Properties ==
    [field \in Fields |->
        CASE field = "brand" -> String(50)
          [] field = "title" -> String(60)
          [] field = "slug" -> String(80)
          [] field = "summary" -> String(160)
          [] field = "description" -> String(800)
          [] field = "highlights" -> Array(100, 3, 5)
          [] field = "keywords" -> Array(80, 5, 10)
          [] field = "hashtags" -> Array(80, 5, 15)
          [] field = "instagram_closing" -> String(200)
          [] field = "alt_instagram" -> String(1000)
          [] field = "linkedin_article" -> String(3000)
          [] field = "alt_title_1" -> String(60)
          [] field = "alt_title_2" -> String(60)
          [] field = "instagram_hook" -> String(100)
          [] field = "instagram_body" -> String(1000)
          [] field = "instagram_hashtags" -> String(400)
          [] field = "linkedin_post" -> String(1300)
          [] field = "category" -> String(None)
          [] field = "needs_review" -> Boolean]

\* A JSON value is <<kind, n, items>>: a string of n characters, a list of
\* items, true (n = 1) or false (n = 0), or null; Missing stands for a key
\* that the object does not have.
Str(n) == <<"str", n, <<>>>>
List(items) == <<"list", 0, items>>
Bool(b) == <<"bool", IF b THEN 1 ELSE 0, <<>>>>
Null == <<"null", 0, <<>>>>
Missing == <<"missing", 0, <<>>>>

IsStr(value) == value[1] = "str"
IsList(value) == value[1] = "list"

\* value[:n] of a string.
StrPrefix(value, n) == Str(IF value[2] < n THEN value[2] ELSE n)

\* Lines 295-304: the items of a list, the strings trimmed to item_max.
TrimItems(items, item_max) ==
    [i \in DOMAIN items |->
        IF IsStr(items[i]) /\ items[i][2] > item_max THEN StrPrefix(items[i], item_max)
        ELSE items[i]]

\* Lines 277-304, one round of the loop: the value the field is left with,
\* and whether needs_review is set in the round.
EnforceField(props, value) ==
    IF props.type = "string" /\ IsStr(value)
    THEN IF props.maxLength # None /\ value[2] > props.maxLength
         THEN <<StrPrefix(value, props.maxLength), TRUE>>
         ELSE <<value, FALSE>>
    ELSE IF props.type = "array" /\ IsList(value)
    THEN LET too_many == props.maxItems # None /\ Len(value[3]) > props.maxItems
             too_few == props.minItems # None /\ Len(value[3]) < props.minItems
             kept == IF too_many THEN Prefix(value[3], props.maxItems) ELSE value[3]
             item_max == props.itemMaxLength
         IN  IF item_max # None
             THEN <<List(TrimItems(kept, item_max)),
                    too_many \/ too_few
                        \/ \E i \in DOMAIN kept : IsStr(kept[i]) /\ kept[i][2] > item_max>>
             ELSE <<List(kept), too_many \/ too_few>>
    ELSE <<value, FALSE>>

\* Mutant of NeedsReviewAfter: needs_review is assigned False, not defaulted.
NeedsReviewReset(value, needs_review) ==
    IF needs_review THEN Bool(TRUE) ELSE Bool(FALSE)

\* Lines 306-309: cleaned["needs_review"] after the loop.
NeedsReviewAfter(value, needs_review) ==
    IF needs_review THEN Bool(TRUE)
    ELSE IF value = Missing THEN Bool(FALSE)
    ELSE value

\* _enforce_constraints(data, schema): <<cleaned, needs_review>>.
enforce_constraints(data) ==
    LET needs_review == \E field \in Fields : EnforceField(Properties[field], data[field])[2]
    IN  <<[field \in Fields |->
              IF field = "needs_review" THEN NeedsReviewAfter(data[field], needs_review)
              ELSE EnforceField(Properties[field], data[field])[1]],
          needs_review>>

\* WavEvent.from_dict(data) raises: a key is missing, or list() is given null.
FromDictRaises(data) ==
    \/ \E field \in Fields \ {"needs_review"} : data[field] = Missing
    \/ \E field \in ListFields : data[field] = Null

\* WavEvent.from_dict(data), lines 219-241.
from_dict(data) ==
    [field \in Fields |->
        IF field = "needs_review"
        THEN (IF data[field] = Missing THEN Bool(FALSE) ELSE data[field])
        ELSE IF field \in ListFields /\ IsStr(data[field])
        THEN List([i \in 1..data[field][2] |-> Str(1)])
        ELSE data[field]]

\* A response with every string at its maxLength, and every list of minItems
\* items at their maxLength.
Baseline ==
    [field \in Fields |->
        LET props == Properties[field] IN
            IF props.type = "string"
            THEN Str(IF props.maxLength # None THEN props.maxLength ELSE 20)
            ELSE IF props.type = "array"
            THEN List([i \in 1..props.minItems |-> Str(props.itemMaxLength)])
            ELSE Missing]

\* The values of a string field in a response.
StringValues(field) ==
    LET props == Properties[field]
        limit == IF props.maxLength # None THEN props.maxLength ELSE 5000
    IN  {Str(limit + excess) : excess \in 0..MaxExcess} \cup {Null, Missing}

\* The values of a list field in a response.
ListValues(field) ==
    LET props == Properties[field]
        good == Str(props.itemMaxLength)
        long == Str(props.itemMaxLength + 1)
    IN  {List([i \in 1..n |-> good]) :
              n \in {props.minItems - 1, props.minItems, props.maxItems}
                    \cup {props.maxItems + excess : excess \in 1..MaxExcess}}
        \cup {List([i \in 1..props.minItems |-> IF i = 1 THEN long ELSE good]),
              List([i \in 1..props.minItems |-> IF i = 1 THEN Null ELSE good]),
              List([i \in 1..(props.maxItems + 1) |->
                       IF i = props.maxItems + 1 THEN long ELSE good]),
              Null, Missing}

\* The locals of a call of generate_event_content.
TextCall(provider, json) ==
    [pc |-> "call", provider |-> provider, json |-> json,
     data |-> [field \in Fields |-> Missing],
     cleaned |-> [field \in Fields |-> Missing],
     needs_review |-> FALSE,
     event |-> [field \in Fields |-> Missing]]

\* The providers generate_event_content is called with (lines 445-450).
Providers == {"openai", "gemini", "other"}

\* A response is the baseline but for one string field, one list field and
\* needs_review; or it is no JSON at all.
InitText ==
    /\ \/ /\ \E sf \in StringFields, lf \in ListFields :
                \E sv \in StringValues(sf), lv \in ListValues(lf),
                   nr \in {Missing, Bool(TRUE), Bool(FALSE)} :
                    response = [Baseline EXCEPT ![sf] = sv, ![lf] = lv, !["needs_review"] = nr]
          /\ \E provider \in Providers : text = TextCall(provider, TRUE)
       \/ /\ response = Baseline
          /\ \E provider \in Providers : text = TextCall(provider, FALSE)
    /\ NoSelectorRun
    /\ NoSessions
    /\ NoIngest

\* Lines 323-355: _call_openai has the response as a dict, or raises on a
\* response that is not JSON.
CallOpenAI ==
    /\ text.pc = "call"
    /\ text.provider = "openai"
    /\ text' = IF text.json THEN [text EXCEPT !.pc = "enforce", !.data = response]
               ELSE [text EXCEPT !.pc = "raised"]
    /\ UNCHANGED <<selectorVars, curateVars, ingestVars, response>>

\* Lines 362-424: _call_gemini has the response as a dict, or raises on a
\* response that is not JSON.
CallGemini ==
    /\ text.pc = "call"
    /\ text.provider = "gemini"
    /\ text' = IF text.json THEN [text EXCEPT !.pc = "enforce", !.data = response]
               ELSE [text EXCEPT !.pc = "raised"]
    /\ UNCHANGED <<selectorVars, curateVars, ingestVars, response>>

\* Line 450: raise ValueError for another provider.
UnsupportedProvider ==
    /\ text.pc = "call"
    /\ text.provider \notin {"openai", "gemini"}
    /\ text' = [text EXCEPT !.pc = "raised"]
    /\ UNCHANGED <<selectorVars, curateVars, ingestVars, response>>

\* Lines 356-358 and 424-426: the constraints are enforced.
EnforceConstraints ==
    /\ text.pc = "enforce"
    /\ LET enforced == enforce_constraints(text.data)
           cleaned == enforced[1]
           needs_review == enforced[2]
       IN text' = [text EXCEPT
               !.pc = "build",
               !.needs_review = needs_review,
               !.cleaned = IF needs_review THEN [cleaned EXCEPT !["needs_review"] = Bool(TRUE)]
                           ELSE cleaned]
    /\ UNCHANGED <<selectorVars, curateVars, ingestVars, response>>

\* Lines 359 and 427: return WavEvent.from_dict(cleaned).
FromDict ==
    /\ text.pc = "build"
    /\ text' = IF FromDictRaises(text.cleaned) THEN [text EXCEPT !.pc = "raised"]
               ELSE [text EXCEPT !.pc = "returned", !.event = from_dict(text.cleaned)]
    /\ UNCHANGED <<selectorVars, curateVars, ingestVars, response>>

NextText ==
    \/ CallOpenAI
    \/ CallGemini
    \/ UnsupportedProvider
    \/ EnforceConstraints
    \/ FromDict

SpecText == InitText /\ [][NextText]_vars

\* --------------------------------------------------------------------- C20

\* The field's value in the event is not its value in the response.
Trimmed(field) == text.event[field] # response[field]

\* The response's list has fewer items than minItems.
TooFew(field) ==
    /\ IsList(response[field])
    /\ Properties[field].minItems # None
    /\ Len(response[field][3]) < Properties[field].minItems

C21_NoCandidateLeftAtFloor ==
    (/\ Done /\ DefaultConfiguration
     /\ Len(image_paths) > target_count
     /\ Len(result) < target_count)
        => RemainingWithin(DecayFloor)

\* --------------------------------------------------------------------- C22

\* The mean distance of a candidate to the selected fingerprints, as a
\* fraction, and the comparison of two of them.
MeanDistance(c) == <<SeqSum([j \in DOMAIN selected_hashes |-> Distance(selected_hashes[j], c[2])]), Len(selected_hashes)>>

SameMean(c, d) == MeanDistance(c)[1] * MeanDistance(d)[2] = MeanDistance(d)[1] * MeanDistance(c)[2]

HigherMean(c, d) == MeanDistance(c)[1] * MeanDistance(d)[2] > MeanDistance(d)[1] * MeanDistance(c)[2]

\* The candidates of the current round at a minimum distance of at least
\* the similarity floor from every selected fingerprint.
Eligible ==
    {i \in DOMAIN candidates :
        \A j \in DOMAIN selected_hashes :
            Distance(candidates[i][2], selected_hashes[j]) >= similarity_threshold}

\* A step of a greedy round that appends a candidate.
GreedyAddition == pc = "greedy" /\ pc' = "greedy" /\ Len(selected') = Len(selected) + 1

\* The candidate the step appends.
Added == selected'[Len(selected')]

\* C22: the candidate a greedy round appends is an eligible candidate; no
\* eligible candidate has a higher mean distance to the selected items; an
\* eligible candidate of the same mean distance is not heavier; and one of the
\* same mean distance and weight is not earlier in the pool.
C22_GreedyPicksMostDiverse ==
    [][GreedyAddition =>
        /\ \E i \in Eligible : candidates[i] = Added
        /\ \A i \in Eligible :
            LET d == candidates[i] IN
                /\ ~HigherMean(d, Added)
                /\ SameMean(d, Added) => d[3] <= Added[3]
                /\ (SameMean(d, Added) /\ d[3] = Added[3])
                        => Position(Added[1]) <= Position(d[1])]_vars

\* A first greedy round has chosen between two eligible candidates of one
\* fingerprint: the heavier one, which is later in the pool, was appended.
C22_Witness ==
    /\ pc = "greedy" /\ Len(selected) = 2
    /\ Distance(selected[1][2], selected[2][2]) >= similarity_threshold
    /\ \E i \in DOMAIN candidates :
        /\ candidates[i][2] = selected[2][2]
        /\ candidates[i][3] < selected[2][3]
        /\ Position(candidates[i][1]) < Position(selected[2][1])

\* --------------------------------------------------------------------- C23

\* A step of the fallback that appends a candidate.
FallbackAddition == pc = "fallback" /\ pc' = "fallback" /\ Len(selected') = Len(selected) + 1

\* The remaining candidates whose minimum distance to the current selection
\* is at least the threshold in effect.
Acceptable ==
    {i \in DOMAIN candidates :
        \A j \in DOMAIN selected_hashes :
            Distance(candidates[i][2], selected_hashes[j]) >= threshold}

\* C23, as stated: the candidate the fallback accepts at a threshold is, of
\* the remaining candidates at a minimum distance of at least that threshold
\* from the selection, the first one in the original order of the pool,
\* whatever the weights.
C23_FallbackFirstInPoolOrder ==
    [][FallbackAddition =>
        /\ \E i \in Acceptable : candidates[i] = Added
        /\ \A i \in Acceptable : Position(Added[1]) <= Position(candidates[i][1])]_vars

\* --------------------------------------------------------------------- C24

\* C24: the candidate a greedy round appends is, when it is appended, at a
\* Hamming distance of at least the similarity floor from every element
\* already selected.
C24_GreedyAdditionsAboveFloor ==
    [][GreedyAddition =>
        \A j \in DOMAIN selected_hashes :
            Distance(Added[2], selected_hashes[j]) >= similarity_threshold]_vars

\* Two greedy rounds have appended a candidate each while a candidate nearer
\* than the similarity floor to a selected element was left aside.
C24_Witness ==
    /\ pc = "greedy" /\ Len(selected) = 3
    /\ \A i, j \in 1..3 : i # j => Distance(selected[i][2], selected[j][2]) >= similarity_threshold
    /\ \E i \in DOMAIN candidates : \E j \in 1..3 :
        Distance(candidates[i][2], selected[j][2]) < similarity_threshold

\* --------------------------------------------------------------------- C25

\* The fallback has nothing more to do: target_count is reached, no
\* candidate remains, or the threshold is no longer above the decay floor.
FallbackOver ==
    \/ Len(selected) >= target_count
    \/ candidates = <<>>
    \/ threshold <= DecayFloor

\* C25: the fallback starts at the similarity floor minus 2; its threshold
\* never increases; it is lowered, by exactly 2, only by a step whose scan
\* found no acceptable candidate and which selects nothing; a step that
\* accepts a candidate keeps the threshold; and the fallback ends, without
\* another scan, exactly when target_count is reached, no candidate remains
\* or the threshold is no longer above the decay floor.
C25_MonotonicDecay ==
    [][/\ (pc # "fallback" /\ pc' = "fallback") => threshold' = similarity_threshold - 2
       /\ pc = "fallback" =>
            /\ threshold' <= threshold
            /\ threshold' # threshold =>
                /\ threshold' = threshold - 2
                /\ Acceptable = {}
                /\ selected' = selected /\ candidates' = candidates
            /\ FallbackAddition => threshold' = threshold
            /\ FallbackOver =>
                pc' = "done" /\ selected' = selected /\ threshold' = threshold
            /\ pc' = "done" => FallbackOver]_vars

\* The fallback has lowered its threshold to 7, accepted a candidate there,
\* tried 7 again in vain and stands at the floor with a candidate left.
C25_Witness ==
    /\ pc = "fallback" /\ DefaultConfiguration
    /\ threshold = DecayFloor
    /\ Len(selected) = 2 /\ Len(selected) < target_count /\ candidates # <<>>
    /\ Distance(selected[1][2], selected[2][2]) < similarity_threshold

\* --------------------------------------------------------------------- C26

\* The fingerprints of the pools of the termination check: an empty pool,
\* pools with an undecodable file, a pool of one fingerprint, pools of two
\* and three fingerprints and a pool with distances 2, 6 and 8.
TerminationPools ==
    {<<>>, <<None>>, <<1, None>>, <<1, 1, 1, 1>>, <<1, 2, 1, 2>>,
     <<1, 2, 3, 1>>, <<2, 12, 1, 1>>, <<3, 1, 2, 1>>}

\* Each of these pools, the second and the third file the larger ones, under
\* every target_count from -1 on and similarity thresholds of both parities
\* below, at and above the decay floor.
InitAnyInteger ==
    /\ file_hash \in TerminationPools
    /\ image_paths = Identity(Len(file_hash))
    /\ file_size = [i \in DOMAIN file_hash |->
                        IF i \in {2, 3} \/ file_hash[i] = None THEN MaxWeight ELSE 1]
    /\ target_count \in -1..MaxK
    /\ similarity_threshold \in {-3, 0, 5, 6, 7, 8, 15, 16, 22}

InitTerminates ==
    /\ InitAnyInteger
    /\ NoSessions
    /\ NoIngest
    /\ NoText
    /\ pc = "start"
    /\ image_data = <<>>
    /\ selected = <<>>
    /\ selected_hashes = <<>>
    /\ candidates = <<>>
    /\ threshold = similarity_threshold
    /\ result = <<>>

\* A call that has started keeps executing: its next statement is run.
SpecTerminates == InitTerminates /\ [][Next]_vars /\ WF_vars(Next)

\* C26: every call returns; a greedy iteration removes one candidate or
\* enters the fallback; a fallback iteration removes one candidate or lowers
\* the threshold by 2; and once the fallback is left it is not entered again.
C26_Terminates ==
    /\ <>Done
    /\ [][/\ (pc = "greedy" /\ pc' # "done") =>
                \/ Len(candidates') = Len(candidates) - 1 /\ pc' = "greedy"
                \/ candidates' = candidates /\ pc' = "fallback"
          /\ (pc = "fallback" /\ pc' # "done") =>
                /\ pc' = "fallback"
                /\ \/ Len(candidates') = Len(candidates) - 1 /\ threshold' = threshold
                   \/ candidates' = candidates /\ threshold' = threshold - 2
          /\ pc = "done" => pc' = "done"]_vars

\* A call with a similarity threshold above the default has gone through
\* the whole decay and returned with candidates left.
C26_Witness ==
    /\ Done
    /\ similarity_threshold > DefaultThreshold
    /\ threshold <= DecayFloor
    /\ candidates # <<>>
    /\ Len(result) < target_count

\* A call with a target_count of zero or less has returned.
C26_NonPositiveReturns == Done /\ target_count <= 0 /\ Len(image_paths) > 0

\* --------------------------------------------------------------------- C27

\* The hero has been chosen.
HeroChosen == pc \in {"greedy", "fallback", "done"} /\ selected # <<>>

\* The fingerprintable candidates of the pool, as (path, fingerprint, weight).
PoolCandidates == {<<image_paths[i], file_hash[image_paths[i]], file_size[image_paths[i]]>> : i \in Available}

\* The elements of a sequence.
Elements(s) == {s[i] : i \in DOMAIN s}

\* s without its i-th element.
Without(s, i) == SubSeq(s, 1, i - 1) \o SubSeq(s, i + 1, Len(s))

\* C27: once the hero is chosen, selected and candidates have no element in
\* common and no element twice, and together hold exactly the fingerprintable
\* candidates of the pool; from then on a step that changes candidates removes
\* from it the one element the step appends to selected, selected only grows
\* at its end, and paths, fingerprints and weights do not change.
C27_Partition ==
    /\ [](HeroChosen =>
            /\ Elements(selected) \cap Elements(candidates) = {}
            /\ Elements(selected) \cup Elements(candidates) = PoolCandidates
            /\ Len(selected) + Len(candidates) = Cardinality(PoolCandidates))
    /\ [][HeroChosen =>
            /\ candidates' # candidates =>
                /\ selected' = Append(selected, Added)
                /\ \E i \in DOMAIN candidates :
                    candidates[i] = Added /\ candidates' = Without(candidates, i)
            /\ selected' # selected =>
                /\ SubSeq(selected', 1, Len(selected)) = selected
                /\ candidates' # candidates
            /\ image_paths' = image_paths
            /\ file_hash' = file_hash
            /\ file_size' = file_size
            /\ image_data' = image_data]_vars

\* A greedy round and the fallback have each moved a candidate to the
\* selection, and a candidate is left.
C27_Witness ==
    /\ pc = "fallback" /\ Len(selected) = 3 /\ candidates # <<>>
    /\ Distance(selected[1][2], selected[2][2]) >= similarity_threshold
    /\ \E j \in 1..2 : Distance(selected[3][2], selected[j][2]) < similarity_threshold

\* --------------------------------------------------------------------- C28

\* The last threshold the fallback tries under the default configuration.
LastThreshold == DecayFloor + DecayStep

\* C28: under the default configuration, for a pool of more than
\* target_count files, any two distinct returned identifiers have
\* fingerprints at a Hamming distance of at least 7; and an element the
\* fallback appends is at least the threshold in effect, one of 13, 11, 9 and
\* 7, away from every element selected before it.
C28_PairwiseDistance ==
    /\ []((Done /\ DefaultConfiguration /\ Len(image_paths) > target_count) =>
            \A i, j \in DOMAIN result :
                i # j => Distance(file_hash[result[i]], file_hash[result[j]]) >= LastThreshold)
    /\ [][(FallbackAddition /\ DefaultConfiguration) =>
            /\ threshold \in {13, 11, 9, 7}
            /\ \A j \in DOMAIN selected_hashes :
                Distance(Added[2], selected_hashes[j]) >= threshold]_vars

\* A default-configuration call has returned two identifiers whose
\* fingerprints are 8 apart, the second accepted by the fallback at 7, and
\* has left a candidate nearer than 7 to the selection.
C28_Witness ==
    /\ Done /\ DefaultConfiguration /\ Len(image_paths) > target_count
    /\ Len(result) = 2
    /\ Distance(file_hash[result[1]], file_hash[result[2]]) = 8
    /\ threshold <= LastThreshold
    /\ candidates # <<>>

\* --------------------------------------------------------------------- C29

\* The step deletes file name of the directory of event e.
Deletes(e, name) == Exists(images[e], name) /\ ~Exists(images'[e], name)

\* Every selected file of the call on e has been copied: final_NN holds the
\* content of the element NN of the selection, in selection order.
AllCopied(e) ==
    /\ session[e].i = Len(session[e].selected)
    /\ \A n \in 1..Len(session[e].selected) :
        images[e][final(n - 1)] = images0[e][session[e].selected[n]]

\* The first element of the selection of the call on e is a fingerprintable
\* candidate at least as heavy as every other one: the hero.
FirstIsHero(e) ==
    LET first == session[e].selected[1] IN
        /\ images0[e][first][1] # None
        /\ \A name \in CandidatesOf(images0[e]) :
            images0[e][name][1] # None => images0[e][name][2] <= images0[e][first][2]

\* The originals of event e are all as they were when the call started.
OriginalsKept(e) == \A name \in CandidatesOf(images0[e]) : images[e][name] = images0[e][name]

\* What C29 says of the order of copies and deletions: a step deletes a
\* candidate file only in the cleanup of a live run, once every selected file
\* is copied; a step of the cleanup changes no final image; and a call that
\* raised in a copy has deleted no original.
CopyBeforeDelete ==
    /\ [](\A e \in Events : Raised(e) => OriginalsKept(e))
    /\ [][\A e \in Events :
            /\ (\E name \in CandidateNames : Deletes(e, name)) =>
                /\ session[e].pc = "clean" /\ ~session[e].dry_run
                /\ AllCopied(e)
            /\ session[e].pc = "clean" =>
                \A name \in FinalNames : images'[e][name] = images[e][name]]_vars

\* The copies of a live run are all made.
CopiesMade(e) == ~session[e].dry_run /\ session[e].pc \in {"clean", "metadata", "returned"}

\* C29, as stated: copy before delete, and the first copy, final_00, is the
\* hero whatever the pool.
C29_CopyBeforeDeleteHeroFirst ==
    /\ CopyBeforeDelete
    /\ [](\A e \in Events :
            (CopiesMade(e) /\ session[e].selected # <<>>) => FirstIsHero(e))

\* C29, amended: copy before delete, final_NN being the element NN of the
\* selection, whose first element is the hero when the directory held more
\* than 6 candidate files.
C29_CopyBeforeDelete ==
    /\ CopyBeforeDelete
    /\ [](\A e \in Events :
            (CopiesMade(e) /\ session[e].selected # <<>>
                /\ Cardinality(CandidatesOf(images0[e])) > DefaultTargetCount)
                    => FirstIsHero(e))

\* A live run with clean on a directory of more than 6 candidates has copied
\* several files and then deleted originals, and the other call has raised
\* in a copy.
C29_Witness ==
    /\ Returned("A") /\ ~session["A"].dry_run /\ session["A"].clean
    /\ Cardinality(CandidatesOf(images0["A"])) > DefaultTargetCount
    /\ Len(session["A"].selected) >= 2
    /\ AllCopied("A")
    /\ \E name \in CandidatesOf(images0["A"]) : ~Exists(images["A"], name)
    /\ Raised("B") /\ session["B"].i >= 1

\* --------------------------------------------------------------------- C30

\* main() calls curate_event once per event directory and run of the script
\* (line 226); a second run of the script calls it again on a directory
\* whose first call has returned.  The second call may have any flags.
Rerun(e) ==
    LET s == session[e] IN
        /\ s.pc = "returned"
        /\ s.previous = <<>>
        /\ \E dry_run, clean \in BOOLEAN :
            session' = [session EXCEPT ![e] =
                [Call(dry_run, clean) EXCEPT !.previous = <<s.dry_run, s.clean, s.unlink_failed>>]]
        /\ images0' = [images0 EXCEPT ![e] = images[e]]
        /\ metadata0' = [metadata0 EXCEPT ![e] = metadata[e]]
        /\ UNCHANGED <<selectorVars, ingestVars, textVars, images, metadata>>

\* The first calls: any directory and flags for event "A", a directory
\* without candidate files for event "B".
InitRerun ==
    /\ InitCurate
    /\ images["B"] = DirNoCandidates
    /\ metadata["B"] = MediaMetadata

NextRerun ==
    \/ NextCurate
    \/ \E e \in Events : Rerun(e)

SpecRerun == InitRerun /\ [][NextRerun]_vars

\* The call on e is the second one, after a live call with clean that
\* returned and in which no unlink raised.
AfterCleanRun(e) == session[e].previous = <<FALSE, TRUE, FALSE>>

\* C30: a call of curate_event on a directory where a live call with clean
\* has returned with every deletion done finds no candidate file, changes
\* neither an image nor metadata.json, and returns <<0, 0>>, whatever its
\* flags.
C30_RerunChangesNothing ==
    \A e \in Events :
        AfterCleanRun(e) =>
            /\ CandidatesOf(images0[e]) = {}
            /\ session[e].pc \in {"start", "returned"}
            /\ Untouched(e)
            /\ Returned(e) => session[e].ret = <<0, 0>>

\* The second call on a directory has returned <<0, 0>>; the first one had
\* copied several files to final images, deleted the candidates and written
\* metadata.json.
C30_Witness ==
    /\ AfterCleanRun("A") /\ Returned("A") /\ session["A"].ret = <<0, 0>>
    /\ ~session["A"].dry_run
    /\ Exists(images["A"], final(0)) /\ Exists(images["A"], final(1))
    /\ images["A"][final(1)] # DirEight[final(1)]
    /\ metadata["A"].kind = "object" /\ metadata["A"].has_media

====
